---- MODULE Spec2Model ----
(***************************************************************************)
(* A model of logilab.astng's tree rebuilder (_nodes_compiler.py,          *)
(* rebuilder.py) and of the scope layer (scoped_nodes.py).                 *)
(*                                                                         *)
(* compiler.ast input nodes and rebuilt astng nodes are records with a     *)
(* field k naming the node class.  Python's None is the string "None" for  *)
(* the assignment context and the record NoNode for a node.                *)
(***************************************************************************)
EXTENDS Integers, Sequences, FiniteSets, TLC

VARIABLES
    asscontext,     \* RebuildVisitor.asscontext
    nVisited,       \* number of children of the module body visited so far
    lastStmt,       \* index in StmtList of the child visited last (0: none)
    prevContext,    \* asscontext just before the last visit
    lastNode,       \* the node the last visit returned
    lastEffects,    \* set_local / _delayed_assattr effects of the last visit
    function,       \* the Function node visit_function returned last
    absBody,        \* FunctionNG.body of the function is_abstract was called on
    absPass,        \* its pass_is_abstract argument
    absResult,      \* what is_abstract returned ("unset" before the call)
    tree,           \* the compiler tree handed to the rebuilder (it is mutable)
    graphs,         \* the graphs built from tree so far, in order
    bases,          \* ClassNG.bases of each class: what each base expression infers to
    ancPhase,       \* "build": classes are being rebuilt; "iter": an ancestors()
                    \* generator is being pulled; "done": it is exhausted
    ancStart,       \* the class ancestors() was called on
    ancRecurs,      \* its recurs argument
    ancStack,       \* the active ancestors() generators, outermost first
    ctxPath,        \* InferenceContext.path: the inferences in progress
    yielded,        \* the classes the outermost generator has yielded
    locals,         \* Class.locals: class -> attribute name -> list of nodes
    instance_attrs, \* Class.instance_attrs, the same shape
    inferredOf,     \* what node.expr.infer() gives, per AssAttr node
    nResolved,      \* number of delayed_assattr calls so far
    lastRun,        \* the node of the last delayed_assattr call (0: none)
    lastRerun,      \* that call was not the first one on its node
    attrPhase,      \* "resolving", then "done": the graph is handed out
    resolved,       \* locals and instance_attrs when resolution completed
    nQueries,       \* number of queries so far
    queryResult,    \* what the last query returned
    modLocals,      \* Module.locals: name -> list of nodes
    nDefs,          \* number of set_local calls so far
    lookup,         \* the last lookup: operation, scope and name
    lkResult,       \* what the last lookup gave
    lkValues,       \* the nodes the last getattr returned
    subNode,        \* the compiler Subscript visited last and its context
    subResult,      \* the node its visit returned
    buildPhase,     \* "idle", "visiting", "resolving", "returned", "raised"
    cache,          \* the keys of manager._cache that hold the module
    queue,          \* RebuildVisitor._delayed_assattr
    resolvedOrder,  \* the queued nodes delayed_assattr was called on, in order
    request,        \* what the last re-entrant request for the module got
    nestedBuilds,   \* builds of the module started inside its build
    metaclass,      \* RebuildVisitor._metaclass
    entered,        \* per open class: depth and top of _metaclass at its
                    \* entry, and whether __metaclass__ was assigned in it
    nClassDefs,     \* number of class statements visited so far
    lastLeft,       \* what the last return of visit_class left behind
    callFunc,       \* the function infer_call_result was called on
    callResult,     \* what the call yielded, in order
    called,         \* whether infer_call_result has been called
    argNode,        \* the Function or Lambda whose parameters are visited
    argGlobals,     \* RebuildVisitor._global_names at that moment
    argResult,      \* the Arguments node and the set_local calls made
    binNode,        \* the chain of a bitwise operator given to visit_binop
    binResult,      \* the node visit_binop returned for it
    ifNode,         \* the If node of the compiler given to visit_if
    ifResult,       \* the node visit_if returned for it
    klassNodes,     \* the nodes bound in the body of a class, in order
    nKlassBody,     \* number of statements of the class body visited
    lastAssign      \* the assignment of a call visited last, if it was one

visitVars == <<asscontext, nVisited, lastStmt, prevContext, lastNode, lastEffects>>

abstractVars == <<absBody, absPass, absResult>>
treeVars == <<tree, graphs>>

ancVars == <<bases, ancPhase, ancStart, ancRecurs, ancStack, ctxPath, yielded>>

attrVars == <<locals, instance_attrs, inferredOf, nResolved, lastRun, lastRerun,
              attrPhase, resolved, nQueries, queryResult>>

lookupVars == <<modLocals, nDefs, lookup, lkResult, lkValues>>

subscriptVars == <<subNode, subResult>>

buildVars == <<buildPhase, cache, queue, resolvedOrder, request, nestedBuilds>>

metaclassVars == <<metaclass, entered, nClassDefs, lastLeft>>

callVars == <<callFunc, callResult, called>>

argVars == <<argNode, argGlobals, argResult>>

binopVars == <<binNode, binResult>>

ifVars == <<ifNode, ifResult>>

klassVars == <<klassNodes, nKlassBody, lastAssign>>

vars ==
    <<visitVars, function, abstractVars, treeVars, ancVars, attrVars,
      lookupVars, subscriptVars, buildVars, metaclassVars, callVars,
      argVars, binopVars, ifVars, klassVars>>

(* what the operations of one part of the program leave alone              *)
notVisit ==
    <<function, abstractVars, treeVars, ancVars, attrVars, lookupVars,
      subscriptVars, buildVars, metaclassVars, callVars, argVars,
      binopVars, ifVars, klassVars>>
notFunction ==
    <<visitVars, abstractVars, treeVars, ancVars, attrVars, lookupVars,
      subscriptVars, buildVars, metaclassVars, callVars, argVars,
      binopVars, ifVars, klassVars>>
notAbstract ==
    <<visitVars, function, treeVars, ancVars, attrVars, lookupVars,
      subscriptVars, buildVars, metaclassVars, callVars, argVars,
      binopVars, ifVars, klassVars>>
notTree ==
    <<visitVars, function, abstractVars, ancVars, attrVars, lookupVars,
      subscriptVars, buildVars, metaclassVars, callVars, argVars,
      binopVars, ifVars, klassVars>>
notAnc ==
    <<visitVars, function, abstractVars, treeVars, attrVars, lookupVars,
      subscriptVars, buildVars, metaclassVars, callVars, argVars,
      binopVars, ifVars, klassVars>>
notAttr ==
    <<visitVars, function, abstractVars, treeVars, ancVars, lookupVars,
      subscriptVars, buildVars, metaclassVars, callVars, argVars,
      binopVars, ifVars, klassVars>>
notLookup ==
    <<visitVars, function, abstractVars, treeVars, ancVars, attrVars,
      subscriptVars, buildVars, metaclassVars, callVars, argVars,
      binopVars, ifVars, klassVars>>
notSubscript ==
    <<visitVars, function, abstractVars, treeVars, ancVars, attrVars,
      lookupVars, buildVars, metaclassVars, callVars, argVars, binopVars,
      ifVars, klassVars>>
notBuild ==
    <<visitVars, function, abstractVars, treeVars, ancVars, attrVars,
      lookupVars, subscriptVars, metaclassVars, callVars, argVars,
      binopVars, ifVars, klassVars>>
notMetaclass ==
    <<visitVars, function, abstractVars, treeVars, ancVars, attrVars,
      lookupVars, subscriptVars, buildVars, callVars, argVars, binopVars,
      ifVars, klassVars>>
notCall ==
    <<visitVars, function, abstractVars, treeVars, ancVars, attrVars,
      lookupVars, subscriptVars, buildVars, metaclassVars, argVars,
      binopVars, ifVars, klassVars>>
notArg ==
    <<visitVars, function, abstractVars, treeVars, ancVars, attrVars,
      lookupVars, subscriptVars, buildVars, metaclassVars, callVars,
      binopVars, ifVars, klassVars>>
notBinop ==
    <<visitVars, function, abstractVars, treeVars, ancVars, attrVars,
      lookupVars, subscriptVars, buildVars, metaclassVars, callVars,
      argVars, ifVars, klassVars>>
notIf ==
    <<visitVars, function, abstractVars, treeVars, ancVars, attrVars,
      lookupVars, subscriptVars, buildVars, metaclassVars, callVars,
      argVars, binopVars, klassVars>>
notKlass ==
    <<visitVars, function, abstractVars, treeVars, ancVars, attrVars,
      lookupVars, subscriptVars, buildVars, metaclassVars, callVars,
      argVars, binopVars, ifVars>>
notAttrBuild ==
    <<visitVars, function, abstractVars, treeVars, ancVars, lookupVars,
      subscriptVars, metaclassVars, callVars, argVars, binopVars, ifVars,
      klassVars>>
notAttrLookup ==
    <<visitVars, function, abstractVars, treeVars, ancVars, subscriptVars,
      buildVars, metaclassVars, callVars, argVars, binopVars, ifVars,
      klassVars>>

----------------------------------------------------------------------------
(* Bounds *)

MaxStmts == 3       \* children of the module body that are visited
MaxDecorators == 2  \* decorator expressions on one function
MaxBody == 2        \* statements in the body given to is_abstract
MaxRebuilds == 2    \* rebuilds of the same compiler tree
MaxResolutions == 2 \* delayed_assattr calls in one run
MaxQueries == 2     \* queries on the finished graph in one run
MaxDefs == 2        \* set_local calls on the scopes in one run
MaxSubs == 2        \* entries between the brackets of one subscript
MaxQueued == 2      \* attribute assignments queued by one visit of a module
MaxNested == 1      \* nested builds of one module that are counted
MaxNesting == 2     \* class statements nested in each other
MaxClassDefs == 3   \* class statements in one module
MaxFuncBody == 2    \* statements in the body of a called function
MaxOperands == 3    \* operands in a chain of one bitwise operator
MaxTests == 3       \* tests of one if statement (the if and its elifs)
MaxKlassBody == 3   \* statements in the body of a class
MaxBaseExprs == 3   \* base expressions in all class statements together

----------------------------------------------------------------------------
(* compiler.ast input nodes *)

NoNode == [k |-> "None"]

CName(n) == [k |-> "Name", name |-> n]
CConst == [k |-> "Const"]
CAssName(n, f) == [k |-> "AssName", name |-> n, flags |-> f]
CAssAttr(e, a, f) == [k |-> "AssAttr", expr |-> e, attrname |-> a, flags |-> f]
CGetattr(e, a) == [k |-> "Getattr", expr |-> e, attrname |-> a]
CAssTuple(ns) == [k |-> "AssTuple", nodes |-> ns]
CAssign(ns, e) == [k |-> "Assign", nodes |-> ns, expr |-> e]
CAugAssign(n, e) == [k |-> "AugAssign", node |-> n, expr |-> e]
CDiscard(e, l) == [k |-> "Discard", expr |-> e, lineno |-> l]
CYield(v) == [k |-> "Yield", value |-> v]
CFor(a, l, b) == [k |-> "For", assign |-> a, list |-> l, body |-> b]
CTryExcept(b, hs) == [k |-> "TryExcept", body |-> b, handlers |-> hs]
CPass == [k |-> "Pass"]

(* The statements a module or function body is drawn from.  A statement-   *)
(* level Yield is what compiler.ast of python < 2.5 gives for `yield 1`;   *)
(* later versions give Discard(Yield): both are listed.                    *)
StmtList ==
    << CPass,                                                        \* pass
       CAssign(<<CAssName("x", "OP_ASSIGN")>>, CConst),              \* x = 1
       CAssign(<<CAssName("x", "OP_ASSIGN")>>, CName("None")),       \* x = None
       CAssign(<<CAssAttr(CName("a"), "b", "OP_ASSIGN")>>, CConst),  \* a.b = 1
       CAssign(<<CAssAttr(CGetattr(CName("a"), "b"), "c", "OP_ASSIGN")>>,
               CConst),                                              \* a.b.c = 1
       CAssign(<<CAssName("x", "OP_ASSIGN")>>, CYield(CConst)),      \* x = yield 1
       CAugAssign(CName("x"), CConst),                               \* x += 1
       CAugAssign(CGetattr(CGetattr(CName("a"), "b"), "c"), CConst), \* a.b.c += 1
       CDiscard(CName("y"), 1),                                      \* y
       CDiscard(CYield(CConst), 1),                                  \* yield 1
       CDiscard(CConst, 0),                                          \* dummy `;`
       CYield(CConst),                                               \* yield 1
       CAssName("x", "OP_DELETE"),                                   \* del x
       CAssName("y", "OP_DELETE"),                                   \* del y
       CAssAttr(CName("a"), "b", "OP_DELETE"),                       \* del a.b
       CAssTuple(<<CAssName("x", "OP_DELETE"),
                   CAssName("y", "OP_DELETE")>>),                    \* del x, y
       CFor(CAssName("i", "OP_ASSIGN"), CName("y"), <<CPass>>),
       CFor(CAssName("i", "OP_ASSIGN"), CName("y"), <<CYield(CConst)>>),
       CFor(CAssName("i", "OP_ASSIGN"), CName("y"),
            <<CAssName("x", "OP_DELETE")>>),
       CTryExcept(<<CPass>>,
                  << <<CName("E"), CAssName("e", "OP_ASSIGN"), <<CPass>> >> >>),
       CTryExcept(<<CYield(CConst)>>,
                  << <<CName("E"), NoNode, <<CAssName("x", "OP_DELETE")>> >> >>)
    >>

----------------------------------------------------------------------------
(* TreeRebuilder: visit_* methods.  A visit returns the new node (n), the  *)
(* assignment context it leaves behind (ctx) and, in order, the bindings   *)
(* it registered and the nodes it queued (eff).                            *)

CONST_NAME_TRANSFORMS == {"None", "True", "False"}

(* _nodes_compiler.py lines 99-115 (the classes used here)                  *)
BinOp_OP_CLASSES ==
    [Add |-> "+", Sub |-> "-", Bitand |-> "&", Bitor |-> "|", Bitxor |-> "^"]
BinOp_BIT_CLASSES == [op \in {"&", "|", "^"} |->
    CHOOSE cls \in DOMAIN BinOp_OP_CLASSES : BinOp_OP_CLASSES[cls] = op]

Ret(n, c, e) == [n |-> n, ctx |-> c, eff |-> e]

SaveAssignment(kind, name) == [e |-> "_save_assignment", nk |-> kind, name |-> name]
DelayedAssAttr(attrname) == [e |-> "_delayed_assattr", nk |-> "AssAttr", name |-> attrname]

RECURSIVE Visit(_, _)
RECURSIVE VisitAll(_, _)
RECURSIVE VisitHandlers(_, _)
RECURSIVE visit_sliceobj(_)
RECURSIVE visit_subscript(_, _)
RECURSIVE visit_binop(_, _)

(* [self.visit(child, newnode) for child in children]: the context is      *)
(* threaded from one child to the next.                                    *)
VisitAll(children, ctx) ==
    IF children = <<>>
    THEN [ns |-> <<>>, ctx |-> ctx, eff |-> <<>>]
    ELSE LET h == Visit(Head(children), ctx)
             t == VisitAll(Tail(children), h.ctx)
         IN  [ns |-> <<h.n>> \o t.ns, ctx |-> t.ctx, eff |-> h.eff \o t.eff]

(* _check_del_node when asscontext is None: a Delete node around targets   *)
CheckDelNode(targets) ==
    LET ts == VisitAll(targets, "Del")
    IN  Ret([k |-> "Delete", targets |-> ts.ns], "None", ts.eff)

visit_name(node, ctx) ==
    IF node.name \in CONST_NAME_TRANSFORMS
    THEN Ret([k |-> "Const"], ctx, <<>>)
    ELSE IF ctx = "Aug"
         THEN Ret([k |-> "AssName", name |-> node.name], ctx, <<>>)
         ELSE Ret([k |-> "Name", name |-> node.name], ctx, <<>>)

visit_delname(node, ctx) ==
    Ret([k |-> "DelName", name |-> node.name], ctx,
        <<SaveAssignment("DelName", node.name)>>)

visit_assname(node, ctx) ==
    IF ctx = "None"
    THEN CheckDelNode(<<node>>)
    ELSE IF ctx = "Del"
         THEN visit_delname(node, ctx)
         ELSE IF ctx \in {"Ass", "Aug"}
              THEN IF node.flags = "OP_ASSIGN"
                   THEN Ret([k |-> "AssName", name |-> node.name], ctx,
                            <<SaveAssignment("AssName", node.name)>>)
                   ELSE Ret([k |-> "AssertionError"], ctx, <<>>)
              ELSE Ret(NoNode, ctx, <<>>)

visit_delattr(node, ctx) ==
    LET e == Visit(node.expr, ctx)
    IN  Ret([k |-> "DelAttr", expr |-> e.n, attrname |-> node.attrname],
            e.ctx, e.eff)

visit_assattr(node, ctx) ==
    IF ctx = "None"
    THEN CheckDelNode(<<node>>)
    ELSE IF ctx = "Del"
         THEN visit_delattr(node, ctx)
         ELSE IF ctx \in {"Ass", "Aug"}
              THEN LET e == Visit(node.expr, ctx)
                   IN  Ret([k |-> "AssAttr", expr |-> e.n,
                            attrname |-> node.attrname],
                           e.ctx, e.eff \o <<DelayedAssAttr(node.attrname)>>)
              ELSE Ret(NoNode, ctx, <<>>)

visit_getattr(node, ctx) ==
    IF ctx = "Aug"
    THEN visit_assattr(node, ctx)
    ELSE LET e == Visit(node.expr, ctx)
         IN  Ret([k |-> "Getattr", expr |-> e.n, attrname |-> node.attrname],
                 e.ctx, e.eff)

visit_tuple(node, ctx) ==
    LET es == VisitAll(node.nodes, ctx)
    IN  Ret([k |-> "Tuple", elts |-> es.ns], es.ctx, es.eff)

visit_asstuple(node, ctx) ==
    IF ctx = "None" THEN CheckDelNode(node.nodes) ELSE visit_tuple(node, ctx)

visit_assign(node, ctx) ==
    LET ts == VisitAll(node.nodes, "Ass")
        v == Visit(node.expr, "None")
    IN  Ret([k |-> "Assign", targets |-> ts.ns, value |-> v.n],
            v.ctx, ts.eff \o v.eff)

visit_augassign(node, ctx) ==
    LET t == Visit(node.node, "Aug")
        v == Visit(node.expr, "None")
    IN  Ret([k |-> "AugAssign", target |-> t.n, value |-> v.n],
            v.ctx, t.eff \o v.eff)

visit_discard(node, ctx) ==
    IF node.lineno = 0     \* lineno is None: the dummy Discard of a `;`
    THEN Ret(NoNode, ctx, <<>>)
    ELSE LET v == Visit(node.expr, "Dis")
         IN  Ret([k |-> "Discard", value |-> v.n], "None", v.eff)

(* _check_discard when asscontext is None: the node is visited again under *)
(* 'Dis'; line 758 then assigns self.context, so asscontext keeps the      *)
(* value the inner visit left.                                             *)
CheckDiscard(node) ==
    LET v == Visit(node, "Dis")
    IN  Ret([k |-> "Discard", value |-> v.n], v.ctx, v.eff)

visit_yield(node, ctx) ==
    IF ctx = "None"
    THEN CheckDiscard(node)
    ELSE LET v == Visit(node.value, ctx)
         IN  Ret([k |-> "Yield", value |-> v.n], v.ctx, v.eff)

visit_for(node, ctx) ==
    LET t == Visit(node.assign, "Ass")
        i == Visit(node.list, "None")
        b == VisitAll(node.body, i.ctx)
    IN  Ret([k |-> "For", target |-> t.n, iter |-> i.n, body |-> b.ns,
             orelse |-> <<>>],
            b.ctx, t.eff \o i.eff \o b.eff)

(* visit_excepthandler(node, parent, values) for each of node.handlers     *)
VisitHandlers(handlers, ctx) ==
    IF handlers = <<>>
    THEN [ns |-> <<>>, ctx |-> ctx, eff |-> <<>>]
    ELSE LET values == Head(handlers)
             ty == Visit(values[1], ctx)
             nm == Visit(values[2], "Ass")
             b == VisitAll(values[3], "None")
             t == VisitHandlers(Tail(handlers), b.ctx)
         IN  [ns |-> <<[k |-> "ExceptHandler", type |-> ty.n, name |-> nm.n,
                        body |-> b.ns]>> \o t.ns,
              ctx |-> t.ctx,
              eff |-> ty.eff \o nm.eff \o b.eff \o t.eff]

visit_tryexcept(node, ctx) ==
    LET b == VisitAll(node.body, ctx)
        hs == VisitHandlers(node.handlers, b.ctx)
    IN  Ret([k |-> "TryExcept", body |-> b.ns, handlers |-> hs.ns,
             orelse |-> <<>>],
            hs.ctx, b.eff \o hs.eff)

(* RebuildVisitor.visit: dispatch on the class of the compiler node        *)
Visit(node, ctx) ==
    CASE node.k = "None" -> Ret(NoNode, ctx, <<>>)
      [] node.k = "Name" -> visit_name(node, ctx)
      [] node.k = "Const" -> Ret([k |-> "Const"], ctx, <<>>)
      [] node.k = "Pass" -> Ret([k |-> "Pass"], ctx, <<>>)
      [] node.k = "AssName" -> visit_assname(node, ctx)
      [] node.k = "AssAttr" -> visit_assattr(node, ctx)
      [] node.k = "Getattr" -> visit_getattr(node, ctx)
      [] node.k = "AssTuple" -> visit_asstuple(node, ctx)
      [] node.k = "Assign" -> visit_assign(node, ctx)
      [] node.k = "AugAssign" -> visit_augassign(node, ctx)
      [] node.k = "Discard" -> visit_discard(node, ctx)
      [] node.k = "Yield" -> visit_yield(node, ctx)
      [] node.k = "For" -> visit_for(node, ctx)
      [] node.k = "TryExcept" -> visit_tryexcept(node, ctx)
      [] node.k = "Subscript" -> visit_subscript(node, ctx)
      [] node.k = "Sliceobj" -> Ret(visit_sliceobj(node).g, ctx, <<>>)
      [] node.k \in DOMAIN BinOp_OP_CLASSES -> visit_binop(node, ctx)

----------------------------------------------------------------------------
(* The rebuilder visiting the children of a body, one after the other      *)

VisitIdle ==
    /\ asscontext = "None"
    /\ nVisited = 0
    /\ lastStmt = 0
    /\ prevContext = "None"
    /\ lastNode = NoNode
    /\ lastEffects = <<>>

(* one iteration of [self.visit(child, newnode) for child in ...nodes]     *)
VisitChild ==
    /\ nVisited < MaxStmts
    /\ \E i \in 1..Len(StmtList) :
          LET r == Visit(StmtList[i], asscontext)
          IN  /\ asscontext' = r.ctx
              /\ lastStmt' = i
              /\ lastNode' = r.n
              /\ lastEffects' = r.eff
    /\ prevContext' = asscontext
    /\ nVisited' = nVisited + 1
    /\ UNCHANGED notVisit

(* C1: after the visit of a construct that sets the assignment context,    *)
(* the context has the value it had before the visit, and at every         *)
(* statement boundary it is None.                                          *)
SetsContext(stmt) ==
    stmt.k \in {"Assign", "AugAssign", "For", "TryExcept", "Yield",
                "AssName", "AssAttr", "AssTuple"}
    \/ (stmt.k = "Discard" /\ stmt.lineno # 0)

C1_ContextRestored ==
    /\ (lastStmt # 0 /\ SetsContext(StmtList[lastStmt]))
          => asscontext = prevContext
    /\ asscontext = "None"

(* C2: the visit of a statement-level `del x`, after any statements,       *)
(* returns a Delete node whose targets are deletion nodes; never no node.  *)
IsDelName(stmt) == stmt.k = "AssName" /\ stmt.flags = "OP_DELETE"

C2_DelNameGivesDelete ==
    (lastStmt # 0 /\ IsDelName(StmtList[lastStmt]))
      => /\ lastNode.k = "Delete"
         /\ Len(lastNode.targets) = 1
         /\ \A j \in 1..Len(lastNode.targets) :
               lastNode.targets[j].k = "DelName"

(* the target of the statement visited last, as given and as rebuilt       *)
GivenTarget ==
    IF StmtList[lastStmt].k = "Assign"
    THEN StmtList[lastStmt].nodes[1]
    ELSE StmtList[lastStmt].node

RebuiltTarget ==
    IF lastNode.k = "Assign" THEN lastNode.targets[1] ELSE lastNode.target

IsTargetStmt ==
    /\ lastStmt # 0
    /\ StmtList[lastStmt].k \in {"Assign", "AugAssign"}
    /\ lastNode.k = StmtList[lastStmt].k

(* an expression rebuilt with read semantics: names and attribute accesses *)
(* of names                                                                *)
RECURSIVE IsRead(_)
IsRead(n) ==
    \/ n.k \in {"Name", "Const"}
    \/ n.k = "Getattr" /\ IsRead(n.expr)

Queued == SelectSeq(lastEffects, LAMBDA e : e.e = "_delayed_assattr")

(* C25: for `a.b.c = v` and for `a.b.c += v` only the outermost attribute   *)
(* access becomes an AssAttr node and only that node is queued for the      *)
(* deferred resolution; the receiver inside it is rebuilt as plain reads.   *)
C25_ReceiverIsRead ==
    (IsTargetStmt /\ GivenTarget.k \in {"AssAttr", "Getattr"}) =>
        /\ RebuiltTarget.k = "AssAttr"
        /\ IsRead(RebuiltTarget.expr)
        /\ Queued = <<DelayedAssAttr(GivenTarget.attrname)>>

(* the same for the targets of plain assignments                            *)
C25_HoldsForAssign ==
    (IsTargetStmt /\ GivenTarget.k = "AssAttr") =>
        /\ RebuiltTarget.k = "AssAttr"
        /\ IsRead(RebuiltTarget.expr)
        /\ Queued = <<DelayedAssAttr(GivenTarget.attrname)>>

(* C26: a bare name that is the target of an assignment or of an augmented *)
(* assignment becomes an AssName node that is registered in the locals of   *)
(* its scope.                                                               *)
C26_NameTargetIsBound ==
    (IsTargetStmt /\ GivenTarget.k \in {"AssName", "Name"}) =>
        /\ RebuiltTarget.k = "AssName"
        /\ \E j \in 1..Len(lastEffects) :
              lastEffects[j] = SaveAssignment("AssName", GivenTarget.name)

(* the same for the targets of plain assignments                            *)
C26_HoldsForAssign ==
    (IsTargetStmt /\ GivenTarget.k = "AssName") =>
        /\ RebuiltTarget.k = "AssName"
        /\ \E j \in 1..Len(lastEffects) :
              lastEffects[j] = SaveAssignment("AssName", GivenTarget.name)

----------------------------------------------------------------------------
(* RebuildVisitor.visit_function: the role (type) of a function            *)

NoFunction == [k |-> "None"]
FunctionNames == {"__new__", "f"}
FrameKinds == {"Class", "Module", "Function"}

(* decorator expressions as the parser gives them: @classmethod,           *)
(* @staticmethod, @property, @builtins.staticmethod                        *)
DecoratorExprs ==
    << CName("classmethod"), CName("staticmethod"), CName("property"),
       CGetattr(CName("builtins"), "staticmethod") >>

RECURSIVE DecoratorLists(_)
DecoratorLists(n) ==
    IF n = 0
    THEN {<<>>}
    ELSE LET shorter == DecoratorLists(n - 1)
         IN  shorter \cup
             {Append(ds, i) : ds \in {d \in shorter : Len(d) = n - 1},
                              i \in 1..Len(DecoratorExprs)}

LambdaNG_type == "function"

(* mutant: the frame's role without the __new__ case                       *)
FrameRole_NoNew(name, frame, type) ==
    IF frame = "Class" THEN "method" ELSE type

(* lines 162-166: the role the frame gives                                 *)
FrameRole(name, frame, type) ==
    IF frame = "Class"
    THEN IF name = "__new__" THEN "classmethod" ELSE "method"
    ELSE type

(* mutant: the loop stops at the first decorator that names a role         *)
DecoratorRole_FirstWins(nodes, type) ==
    LET roles == {i \in 1..Len(nodes) :
                    nodes[i].k = "Name"
                    /\ nodes[i].name \in {"classmethod", "staticmethod"}}
    IN  IF roles = {}
        THEN type
        ELSE nodes[CHOOSE i \in roles : \A j \in roles : i <= j].name

(* lines 167-171: every decorator that is the bare name classmethod or     *)
(* staticmethod assigns the role, in source order                          *)
RECURSIVE DecoratorRole(_, _)
DecoratorRole(nodes, type) ==
    IF nodes = <<>>
    THEN type
    ELSE LET decorator_expr == Head(nodes)
         IN  IF decorator_expr.k = "Name"
                /\ decorator_expr.name \in {"classmethod", "staticmethod"}
             THEN DecoratorRole(Tail(nodes), decorator_expr.name)
             ELSE DecoratorRole(Tail(nodes), type)

visit_function(name, frame, decorators) ==
    LET nodes == VisitAll(decorators, "None").ns    \* visit_decorators
    IN  [k |-> "Function", name |-> name, frame |-> frame,
         decorators |-> nodes,
         type |-> DecoratorRole(nodes, FrameRole(name, frame, LambdaNG_type))]

FunctionIdle == function = NoFunction

VisitFunction ==
    /\ \E name \in FunctionNames, frame \in FrameKinds,
          ds \in DecoratorLists(MaxDecorators) :
           function' = visit_function(name, frame,
                                      [i \in 1..Len(ds) |-> DecoratorExprs[ds[i]]])
    /\ UNCHANGED notFunction

(* the decorators that are the bare name classmethod or staticmethod        *)
IsRoleDecorator(d) == d.k = "Name" /\ d.name \in {"classmethod", "staticmethod"}
RoleDecorators(f) ==
    {i \in 1..Len(f.decorators) : IsRoleDecorator(f.decorators[i])}
LastRoleDecorator(f) ==
    f.decorators[CHOOSE i \in RoleDecorators(f) :
                    \A j \in RoleDecorators(f) : j <= i]

(* C9 as stated: a function named __new__ in a class body always has role  *)
(* classmethod, whatever its decorators.                                   *)
C9_NewAlwaysClassmethod ==
    (function # NoFunction /\ function.frame = "Class"
       /\ function.name = "__new__")
      => function.type = "classmethod"

(* C9 amended: when visit_function returns, a function named __new__ in a  *)
(* class body has role classmethod unless one of its decorators is the     *)
(* bare name classmethod or staticmethod; the last such decorator then     *)
(* names its role.                                                         *)
C9_NewClassmethodUnlessDecorated ==
    (function # NoFunction /\ function.frame = "Class"
       /\ function.name = "__new__")
      => function.type = IF RoleDecorators(function) = {}
                         THEN "classmethod"
                         ELSE LastRoleDecorator(function).name

C9_Witness ==
    /\ function # NoFunction
    /\ function.frame = "Class"
    /\ function.name = "__new__"
    /\ Len(function.decorators) = 2
    /\ RoleDecorators(function) = {}
    /\ function.type = "classmethod"

(* C10 as stated: the first decorator, when it is classmethod or           *)
(* staticmethod, gives the role whatever follows; without such a decorator *)
(* a function in a class body is a method and one outside is a function.   *)
C10_FirstDecoratorGivesRole ==
    function # NoFunction =>
      /\ (Len(function.decorators) > 0
            /\ IsRoleDecorator(function.decorators[1]))
           => function.type = function.decorators[1].name
      /\ (RoleDecorators(function) = {} /\ function.frame = "Class")
           => function.type = "method"
      /\ (RoleDecorators(function) = {} /\ function.frame # "Class")
           => function.type = "function"

(* C10 amended: the last decorator that is the bare name classmethod or    *)
(* staticmethod gives the role; without such a decorator a function in a   *)
(* class body is a method (a classmethod when named __new__) and one       *)
(* outside a class is a function.                                          *)
C10_LastDecoratorGivesRole ==
    function # NoFunction =>
      /\ RoleDecorators(function) # {}
           => function.type = LastRoleDecorator(function).name
      /\ (RoleDecorators(function) = {} /\ function.frame = "Class")
           => function.type = IF function.name = "__new__"
                              THEN "classmethod" ELSE "method"
      /\ (RoleDecorators(function) = {} /\ function.frame # "Class")
           => function.type = "function"

C10_Witness ==
    /\ function # NoFunction
    /\ Len(function.decorators) = 2
    /\ IsRoleDecorator(function.decorators[1])
    /\ IsRoleDecorator(function.decorators[2])
    /\ function.decorators[1].name # function.decorators[2].name
    /\ function.type = function.decorators[2].name

----------------------------------------------------------------------------
(* FunctionNG.is_abstract *)

NName(n) == [k |-> "Name", name |-> n]
NConst == [k |-> "Const"]
NCallFunc(f, as) == [k |-> "CallFunc", func |-> f, args |-> as]
NRaise(t) == [k |-> "Raise", type |-> t]

(* the statements a function body is drawn from                            *)
BodyStmts ==
    << [k |-> "Pass"],
       [k |-> "Return"],
       [k |-> "Discard"],
       NRaise(NoNode),                                       \* raise
       NRaise(NName("NotImplementedError")),
       NRaise(NCallFunc(NName("NotImplementedError"), <<NConst>>)),
       NRaise(NName("ValueError")),
       NRaise(NCallFunc(NName("ValueError"),
                        <<NName("NotImplementedError")>>)),
       NRaise(NConst) >>

RECURSIVE BodyLists(_)
BodyLists(n) ==
    IF n = 0
    THEN {<<>>}
    ELSE LET shorter == BodyLists(n - 1)
         IN  shorter \cup
             {Append(b, i) : b \in {c \in shorter : Len(c) = n - 1},
                             i \in 1..Len(BodyStmts)}

(* NodeNG.nodes_of_class(Name): the Name nodes of an expression, the node  *)
(* itself first, then those of its children in order                       *)
RECURSIVE NodesOfClassName(_)
RECURSIVE NodesOfClassNameAll(_)
NodesOfClassName(node) ==
    CASE node.k = "Name" -> <<node>>
      [] node.k = "CallFunc" ->
            NodesOfClassName(node.func) \o NodesOfClassNameAll(node.args)
      [] OTHER -> <<>>
NodesOfClassNameAll(nodes) ==
    IF nodes = <<>>
    THEN <<>>
    ELSE NodesOfClassName(Head(nodes)) \o NodesOfClassNameAll(Tail(nodes))

(* the test of lines 393-399 on one child of the body                      *)
RaisesNotImplemented(child_node) ==
    /\ child_node.k = "Raise"
    /\ child_node.type # NoNode
    /\ LET names == NodesOfClassName(child_node.type)
       IN  names # <<>> /\ names[1].name = "NotImplementedError"

(* is_abstract: the for loop returns in its first iteration                *)
is_abstract(body, pass_is_abstract) ==
    IF body # <<>>
    THEN LET child_node == body[1]
         IN  IF RaisesNotImplemented(child_node)
             THEN "True"
             ELSE IF pass_is_abstract /\ child_node.k = "Pass"
                  THEN "True"
                  ELSE "False"
    ELSE IF pass_is_abstract THEN "True" ELSE "None"

AbstractIdle ==
    /\ absBody = <<>>
    /\ absPass = TRUE
    /\ absResult = "unset"

IsAbstractCall ==
    /\ \E b \in BodyLists(MaxBody), pass_is_abstract \in BOOLEAN :
          LET body == [i \in 1..Len(b) |-> BodyStmts[b[i]]]
          IN  /\ absBody' = body
              /\ absPass' = pass_is_abstract
              /\ absResult' = is_abstract(body, pass_is_abstract)
    /\ UNCHANGED notAbstract

(* C8: is_abstract() is True exactly when the body is empty or its only    *)
(* statement is a pass or a raise of NotImplementedError; any other single *)
(* statement and any body of more than one statement is not abstract.      *)
IsRaiseOfNotImplemented(stmt) ==
    /\ stmt.k = "Raise"
    /\ \/ stmt.type = NName("NotImplementedError")
       \/ (stmt.type.k = "CallFunc"
           /\ stmt.type.func = NName("NotImplementedError"))

C8_AbstractIffOnlyStatement ==
    (absResult # "unset" /\ absPass)
      => ((absResult = "True")
            <=> \/ absBody = <<>>
                \/ /\ Len(absBody) = 1
                   /\ \/ absBody[1].k = "Pass"
                      \/ IsRaiseOfNotImplemented(absBody[1]))

----------------------------------------------------------------------------
(* Rebuilding one compiler tree more than once: visit_arguments and        *)
(* visit_sliceobj work on the lists of the input nodes themselves.         *)

(* the entries of a Sliceobj: Const(None), a constant, a name              *)
CConstNone == [k |-> "Const", value |-> "None"]
SliceEntries == << CConstNone, CConst, CName("i") >>
Positionals == << <<>>, <<"a">>, <<"a", "b">> >>

(* a Function node (argnames, flags) and a Sliceobj node (nodes)           *)
Trees ==
    { [argnames |-> Positionals[p]
                      \o (IF va THEN <<"args">> ELSE <<>>)
                      \o (IF kw THEN <<"kwargs">> ELSE <<>>),
       varargs |-> va,                  \* node.flags & 4
       kwargs |-> kw,                   \* node.flags & 8
       nodes |-> [i \in 1..Len(sl) |-> SliceEntries[sl[i]]]] :
         p \in 1..Len(Positionals), va \in BOOLEAN, kw \in BOOLEAN,
         sl \in [1..2 -> 1..Len(SliceEntries)]
                 \cup [1..3 -> 1..Len(SliceEntries)] }

Front(seq) == SubSeq(seq, 1, Len(seq) - 1)
Last(seq) == seq[Len(seq)]

_filter_none(node) == IF node = CConstNone THEN NoNode ELSE node

RECURSIVE NodifyArgs(_)
NodifyArgs(values) ==
    IF values = <<>>
    THEN <<>>
    ELSE <<[k |-> "AssName", name |-> Head(values)]>> \o NodifyArgs(Tail(values))

RECURSIVE Names(_)
Names(values) ==
    IF values = <<>> THEN {} ELSE {Head(values)} \cup Names(Tail(values))

(* visit_arguments: the variadic names are popped off node.argnames; a     *)
(* pop from an empty list raises IndexError.  g is the Arguments node and  *)
(* the keys _save_assignment and _save_argument_name gave the function's   *)
(* locals, argnames is the input list as the visit leaves it.              *)
visit_arguments(node) ==
    LET popKw == node.kwargs
        errKw == popKw /\ node.argnames = <<>>
        names1 == IF popKw /\ ~errKw THEN Front(node.argnames) ELSE node.argnames
        kwarg == IF popKw /\ ~errKw THEN Last(node.argnames) ELSE "None"
        popVar == node.varargs /\ ~errKw
        errVar == popVar /\ names1 = <<>>
        names2 == IF popVar /\ ~errVar THEN Front(names1) ELSE names1
        vararg == IF popVar /\ ~errVar THEN Last(names1) ELSE "None"
    IN  IF errKw \/ errVar
        THEN [g |-> [k |-> "IndexError"], argnames |-> names2]
        ELSE [g |-> [k |-> "Arguments", vararg |-> vararg, kwarg |-> kwarg,
                     args |-> NodifyArgs(names2),
                     locals |-> Names(names2)
                                  \cup ({vararg, kwarg} \ {"None"})],
              argnames |-> names2]

(* visit_sliceobj(node, parent, slice=False): a third entry is appended to *)
(* a two-element node.nodes                                                *)
visit_sliceobj(node) ==
    LET subs == IF Len(node.nodes) = 2
                THEN Append(node.nodes, NoNode)
                ELSE node.nodes
    IN  [g |-> [k |-> "Slice",
                lower |-> Visit(_filter_none(subs[1]), "None").n,
                upper |-> Visit(_filter_none(subs[2]), "None").n,
                step |-> Visit(_filter_none(subs[3]), "None").n],
         nodes |-> subs]

TreeIdle ==
    /\ tree = [argnames |-> <<>>, varargs |-> FALSE, kwargs |-> FALSE,
               nodes |-> <<CConst, CConst, CConst>>]
    /\ graphs = <<>>

TreeInit ==
    /\ tree \in Trees
    /\ graphs = <<>>

(* one rebuild of tree by a fresh TreeRebuilder: it builds the graph and   *)
(* leaves argnames and nodes as the visits changed them                    *)
Rebuild ==
    /\ Len(graphs) < MaxRebuilds
    /\ LET a == visit_arguments(tree)
           s == visit_sliceobj(tree)
       IN  /\ graphs' = Append(graphs, [args |-> a.g, slice |-> s.g])
           /\ tree' = [tree EXCEPT !.argnames = a.argnames,
                                   !.nodes = s.nodes]
    /\ UNCHANGED notTree

(* C6: two rebuilds of the same input tree, each by a fresh rebuilder,     *)
(* give the same graph: the first rebuild changes nothing in the input     *)
(* that the second one can observe.                                        *)
C6_RebuildTwiceSameGraph ==
    Len(graphs) >= 2 => graphs[2] = graphs[1]

----------------------------------------------------------------------------
(* ClassNG.ancestors, pulled element by element *)

Classes == {"X", "Y", "Z"}

(* what the inference of a base expression gives: a class, an object that  *)
(* is no class, or an InferenceError                                       *)
BaseObjects == Classes \cup {"nonclass", "InferenceError"}

NoBases == [c \in Classes |-> <<>>]

RECURSIVE SumLen(_, _)
SumLen(f, S) ==
    IF S = {}
    THEN 0
    ELSE LET c == CHOOSE x \in S : TRUE
         IN  Len(f[c]) + SumLen(f, S \ {c})

AncIdle ==
    /\ bases = NoBases
    /\ ancPhase = "build"
    /\ ancStart = "X"
    /\ ancRecurs = TRUE
    /\ ancStack = <<>>
    /\ ctxPath = <<>>
    /\ yielded = <<>>

(* _visit_class, line 349: one more base expression of class c             *)
AddBase ==
    /\ ancPhase = "build"
    /\ SumLen(bases, Classes) < MaxBaseExprs
    /\ \E c \in Classes, o \in BaseObjects :
          bases' = [bases EXCEPT ![c] = Append(@, o)]
    /\ UNCHANGED <<ancPhase, ancStart, ancRecurs, ancStack, ctxPath, yielded>>
    /\ UNCHANGED notAnc

(* a call c.ancestors(recurs) with no context: lines 585-586               *)
StartAncestors ==
    /\ ancPhase = "build"
    /\ \E c \in Classes, recurs \in BOOLEAN :
          /\ ancStart' = c
          /\ ancRecurs' = recurs
          /\ ancStack' = <<[cls |-> c, i |-> 1]>>
    /\ ancPhase' = "iter"
    /\ ctxPath' = <<>>
    /\ yielded' = <<>>
    /\ UNCHANGED bases
    /\ UNCHANGED notAnc

Top == ancStack[Len(ancStack)]
Stmt(f) == <<f.cls, f.i>>
InPath(stmt) == \E j \in 1..Len(ctxPath) : ctxPath[j] = stmt

(* stmt.infer(context): nothing when the inference of stmt is in progress  *)
(* in this context, else what the expression infers to                     *)
Infer(f) == IF InPath(Stmt(f)) THEN "nothing" ELSE bases[f.cls][f.i]

(* variant: a base that is no class or fails to infer ends the loop over   *)
(* the bases                                                               *)
Skipped_FailureEndsLoop(f) ==
    \/ Infer(f) \notin Classes
    \/ Infer(f) = f.cls
    \/ \E j \in 1..(f.i - 1) : bases[f.cls][j] \notin Classes

(* lines 590-594 and 601-603: the base contributes nothing                 *)
Skipped(f) ==
    LET baseobj == Infer(f)
    IN  baseobj \notin Classes \/ baseobj = f.cls

(* mutant: a class yielded by a nested generator is passed on even when it *)
(* is the class of an enclosing generator                                  *)
Delivered_NoSelfCheck(baseobj) == TRUE

(* lines 597-600: a class yielded by a nested generator reaches the caller *)
(* unless an enclosing generator finds it to be its own class              *)
Delivered(baseobj) ==
    \A j \in 1..(Len(ancStack) - 1) : ancStack[j].cls # baseobj

WithTop(f) == [ancStack EXCEPT ![Len(ancStack)] = f]

(* the for loop goes on to the next base: nothing inferred, not a class,   *)
(* the class itself, or an InferenceError                                  *)
AncSkip ==
    /\ ancPhase = "iter"
    /\ Top.i <= Len(bases[Top.cls])
    /\ Skipped(Top)
    /\ ancStack' = WithTop([Top EXCEPT !.i = @ + 1])
    /\ UNCHANGED <<bases, ancPhase, ancStart, ancRecurs, ctxPath, yielded>>
    /\ UNCHANGED notAnc

(* yield baseobj, then with recurs the nested baseobj.ancestors(True,      *)
(* context) is entered while the inference of stmt is still in progress    *)
AncYield ==
    /\ ancPhase = "iter"
    /\ Top.i <= Len(bases[Top.cls])
    /\ ~Skipped(Top)
    /\ LET baseobj == Infer(Top)
       IN  /\ yielded' = IF Delivered(baseobj)
                         THEN Append(yielded, baseobj)
                         ELSE yielded
           /\ IF ancRecurs
              THEN /\ ancStack' = Append(ancStack, [cls |-> baseobj, i |-> 1])
                   /\ ctxPath' = Append(ctxPath, Stmt(Top))
              ELSE /\ ancStack' = WithTop([Top EXCEPT !.i = @ + 1])
                   /\ ctxPath' = ctxPath
    /\ UNCHANGED <<bases, ancPhase, ancStart, ancRecurs>>
    /\ UNCHANGED notAnc

(* a generator is exhausted: the enclosing one ends the inference of its   *)
(* base and goes on to its next base; the outermost one ends the iteration *)
AncReturn ==
    /\ ancPhase = "iter"
    /\ Top.i > Len(bases[Top.cls])
    /\ IF Len(ancStack) = 1
       THEN /\ ancPhase' = "done"
            /\ ancStack' = <<>>
            /\ ctxPath' = ctxPath
       ELSE LET parent == ancStack[Len(ancStack) - 1]
            IN  /\ ancPhase' = ancPhase
                /\ ancStack' = Append(SubSeq(ancStack, 1, Len(ancStack) - 2),
                                      [parent EXCEPT !.i = @ + 1])
                /\ ctxPath' = Front(ctxPath)
    /\ UNCHANGED <<bases, ancStart, ancRecurs, yielded>>
    /\ UNCHANGED notAnc

PullAncestors == AncSkip \/ AncYield \/ AncReturn

(* C4: for X(Y) and Y(X) whose base expressions infer to each other,       *)
(* pulling every element of X.ancestors(recurs=True) terminates and yields *)
(* no class other than Y.                                                  *)
MutualXY ==
    /\ bases["X"] = <<"Y">>
    /\ bases["Y"] = <<"X">>
    /\ ancPhase # "build"
    /\ ancStart = "X"
    /\ ancRecurs

C4_MutualCycleTerminates ==
    /\ [](MutualXY => \A j \in 1..Len(yielded) : yielded[j] = "Y")
    /\ (MutualXY ~> ancPhase = "done")

C4_Witness == MutualXY /\ ancPhase = "done" /\ yielded = <<"Y">>

(* C5: with recurs=True the traversal never descends again into a class    *)
(* that is already on the current traversal path.                          *)
C5_NoDescentIntoClassOnPath ==
    \A i, j \in 1..Len(ancStack) :
        i # j => ancStack[i].cls # ancStack[j].cls

(* the classes among the base expressions of c, in declared order          *)
DirectBases(c) == SelectSeq(bases[c], LAMBDA o : o \in Classes)

(* no class is reached from itself along base expressions                  *)
ReachedIn(c, n) ==
    LET step[j \in 0..n] ==
            IF j = 0
            THEN {c}
            ELSE step[j - 1] \cup
                 {d \in Classes : \E e \in step[j - 1] :
                                     \E i \in 1..Len(bases[e]) : bases[e][i] = d}
    IN  step[n]

Acyclic ==
    \A c \in Classes :
        \A i \in 1..Len(bases[c]) :
            bases[c][i] \in Classes
                => c \notin ReachedIn(bases[c][i], Cardinality(Classes))

(* each direct base followed by its own list, in declared order            *)
RECURSIVE DepthFirst(_)
DepthFirst(c) ==
    LET direct == DirectBases(c)
        upTo[j \in 0..Len(direct)] ==
            IF j = 0
            THEN <<>>
            ELSE upTo[j - 1] \o <<direct[j]>> \o DepthFirst(direct[j])
    IN  upTo[Len(direct)]

(* C21: for an acyclic hierarchy ancestors(recurs=True) yields, for each    *)
(* base in declared order, that base immediately followed by its own        *)
(* transitive ancestors; with recurs=False it yields exactly the direct     *)
(* bases; a base whose inference fails or gives no class contributes        *)
(* nothing and the later bases are still processed.                         *)
C21_DepthFirstPrefixOrder ==
    (Acyclic /\ ancPhase = "done") =>
        yielded = IF ancRecurs THEN DepthFirst(ancStart) ELSE DirectBases(ancStart)

C21_Witness ==
    /\ ancPhase = "done"
    /\ ancRecurs
    /\ ancStart = "X"
    /\ bases["X"] = <<"InferenceError", "Y">>
    /\ bases["Y"] = <<"Z">>
    /\ yielded = <<"Y", "Z">>

----------------------------------------------------------------------------
(* Deferred attribute assignments: RebuildVisitor.delayed_assattr, and the  *)
(* attribute queries of Class                                               *)

AttrNames == {"a", "b"}

(* names that start with two underscores                                    *)
DunderNames == {"__getattr__", "__getattribute__", "__x"}

AllNames == AttrNames \cup DunderNames

(* the AssAttr nodes of the module: `x.a = ..` in a method, `x.a = ..` and  *)
(* `x.b = ..` in __init__, `x.a = ..` in another __init__; frame is         *)
(* node.frame().name                                                        *)
AssAttrNodes ==
    << [attrname |-> "a", frame |-> "meth"],
       [attrname |-> "a", frame |-> "__init__"],
       [attrname |-> "b", frame |-> "__init__"],
       [attrname |-> "a", frame |-> "__init__"] >>

YES == [k |-> "YES"]
ConstInstance == [k |-> "Const"]
NoNamespace == [k |-> "NoNamespace"]
InferenceError == [k |-> "InferenceError"]
InstanceOf(c) == [k |-> "Instance", cls |-> c]
ClassObj(c) == [k |-> "Class", cls |-> c]

(* what node.expr.infer() may produce, in order; InferenceError ends it     *)
InferenceResults ==
    { <<>>,
      <<InferenceError>>,
      <<YES>>,
      <<YES, InstanceOf("X")>>,
      <<InstanceOf("X"), InstanceOf("X")>>,
      <<InstanceOf("Y"), InferenceError>>,
      <<InstanceOf("X"), InstanceOf("Y")>>,
      <<ClassObj("X")>>,
      <<ConstInstance, ClassObj("Y")>>,
      <<NoNamespace, InstanceOf("Y"), ClassObj("Y")>> }

NotInferred == <<[k |-> "NotInferred"]>>

NoAttrs == [c \in Classes |-> [name \in AllNames |-> <<>>]]

(* class X(Y), class Y(Z), class Z(object)                                  *)
InheritChain == [X |-> <<"Y">>, Y |-> <<"Z">>, Z |-> <<"nonclass">>]

NoResult == [raised |-> FALSE, values |-> <<>>]

AttrIdle ==
    /\ locals = NoAttrs
    /\ instance_attrs = NoAttrs
    /\ inferredOf = [n \in 1..Len(AssAttrNodes) |-> NotInferred]
    /\ nResolved = 0
    /\ lastRun = 0
    /\ lastRerun = FALSE
    /\ attrPhase = "resolving"
    /\ resolved = <<NoAttrs, NoAttrs>>
    /\ nQueries = 0
    /\ queryResult = NoResult

(* mutant: the membership test of line 227 never finds the node            *)
InValues_Never(node, values) == FALSE

(* line 227: node in values                                                 *)
InValues(node, values) == \E j \in 1..Len(values) : values[j] = node

(* variant: the node always goes to the end of the list                     *)
AddNode_AppendOnly(values, node) ==
    IF InValues(node, values) THEN values ELSE Append(values, node)

(* variant: a new node always goes to the front of the list                 *)
AddNode_AlwaysFront(values, node) ==
    IF InValues(node, values) THEN values ELSE <<node>> \o values

(* lines 226-234 on the list of one namespace                               *)
AddNode(values, node) ==
    IF InValues(node, values)
    THEN values
    ELSE IF /\ AssAttrNodes[node].frame = "__init__"
            /\ values # <<>>
            /\ AssAttrNodes[values[1]].frame # "__init__"
         THEN <<node>> \o values
         ELSE Append(values, node)

(* variant: every candidate is recorded in instance_attrs                   *)
iattrs_InstanceAttrsOnly(infered) == "instance_attrs"

(* lines 213-221: the map the node is recorded in, instance_attrs of the    *)
(* class of a plain Instance, locals of any other object with locals        *)
iattrs(infered) ==
    IF infered.k = "Instance" THEN "instance_attrs" ELSE "locals"

(* lines 209-236, from the j-th inferred object on; st is the pair of       *)
(* locals and instance_attrs                                                *)
RECURSIVE delayed_assattr_from(_, _, _, _)
delayed_assattr_from(st, node, infer, j) ==
    IF j > Len(infer)
    THEN st
    ELSE LET infered == infer[j]
             name == AssAttrNodes[node].attrname
         IN  CASE infered.k = "InferenceError" -> st
               [] infered.k \in {"YES", "Const", "NoNamespace"} ->
                    delayed_assattr_from(st, node, infer, j + 1)
               [] infered.k \in {"Instance", "Class"} ->
                    delayed_assattr_from(
                        IF iattrs(infered) = "instance_attrs"
                        THEN <<st[1],
                               [st[2] EXCEPT ![infered.cls][name] =
                                                 AddNode(@, node)]>>
                        ELSE <<[st[1] EXCEPT ![infered.cls][name] =
                                                 AddNode(@, node)],
                               st[2]>>,
                        node, infer, j + 1)

delayed_assattr(st, node, infer) == delayed_assattr_from(st, node, infer, 1)

(* one call of delayed_assattr on a node; the inference of node.expr gives  *)
(* the same objects each time it is run on the node                         *)
DelayedAssattrCall ==
    /\ attrPhase = "resolving"
    /\ nResolved < MaxResolutions
    /\ \E node \in 1..Len(AssAttrNodes) :
         \E infer \in IF inferredOf[node] = NotInferred
                      THEN InferenceResults
                      ELSE {inferredOf[node]} :
            LET st == delayed_assattr(<<locals, instance_attrs>>, node, infer)
            IN  /\ locals' = st[1]
                /\ instance_attrs' = st[2]
                /\ inferredOf' = [inferredOf EXCEPT ![node] = infer]
                /\ lastRun' = node
                /\ lastRerun' = (inferredOf[node] # NotInferred)
    /\ nResolved' = nResolved + 1
    /\ UNCHANGED <<attrPhase, resolved, nQueries, queryResult>>
    /\ UNCHANGED notAttr

(* builder.py: the delayed assignments are all resolved                     *)
ResolutionDone ==
    /\ attrPhase = "resolving"
    /\ attrPhase' = "done"
    /\ resolved' = <<locals, instance_attrs>>
    /\ UNCHANGED <<locals, instance_attrs, inferredOf, nResolved, lastRun,
                   lastRerun, nQueries, queryResult>>
    /\ UNCHANGED notAttr

(* Class.ancestors as the list it yields (scoped_nodes.py lines 574-603);   *)
(* path holds the base expressions whose inference is in progress           *)
RECURSIVE ancestors_from(_, _, _, _)
ancestors_from(c, i, recurs, path) ==
    IF i > Len(bases[c])
    THEN <<>>
    ELSE LET stmt == <<c, i>>
             baseobj == IF stmt \in path THEN "nothing" ELSE bases[c][i]
             rest == ancestors_from(c, i + 1, recurs, path)
         IN  IF baseobj \notin Classes \/ baseobj = c
             THEN rest
             ELSE <<baseobj>>
                  \o (IF recurs
                      THEN SelectSeq(
                               ancestors_from(baseobj, 1, TRUE, path \cup {stmt}),
                               LAMBDA grandpa : grandpa # c)
                      ELSE <<>>)
                  \o rest

ancestors(c, recurs) == ancestors_from(c, 1, recurs, {})

(* the lists attrs[astng][name] of the classes in seq, one after the other  *)
RECURSIVE Gather(_, _, _)
Gather(attrs, seq, name) ==
    IF seq = <<>>
    THEN <<>>
    ELSE attrs[Head(seq)][name] \o Gather(attrs, Tail(seq), name)

(* lines 613-620; a name is a key of the dictionary when its list has been  *)
(* created, and delayed_assattr never leaves a created list empty           *)
instance_attr_ancestors(c, name) ==
    SelectSeq(ancestors(c, TRUE), LAMBDA astng : instance_attrs[astng][name] # <<>>)

(* lines 605-611                                                             *)
local_attr_ancestors(c, name) ==
    SelectSeq(ancestors(c, TRUE), LAMBDA astng : locals[astng][name] # <<>>)

Result(values) ==
    IF values = <<>>
    THEN [raised |-> TRUE, values |-> <<>>]
    ELSE [raised |-> FALSE, values |-> values]

(* lines 638-653: values is the class's own list when the name is a key of  *)
(* its instance_attrs, and += extends that list in place                    *)
InstanceAttr ==
    /\ attrPhase = "done"
    /\ nQueries < MaxQueries
    /\ \E c \in Classes, name \in AttrNames :
         LET own == instance_attrs[c][name]
             values == own \o Gather(instance_attrs,
                                     instance_attr_ancestors(c, name), name)
         IN  /\ instance_attrs' = IF own # <<>>
                                  THEN [instance_attrs EXCEPT ![c][name] = values]
                                  ELSE instance_attrs
             /\ queryResult' = Result(values)
    /\ nQueries' = nQueries + 1
    /\ UNCHANGED <<locals, inferredOf, nResolved, lastRun, lastRerun, attrPhase,
                   resolved>>
    /\ UNCHANGED notAttr

(* lines 622-636                                                             *)
local_attr(c, name) ==
    IF locals[c][name] # <<>>
    THEN locals[c][name]
    ELSE LET found == local_attr_ancestors(c, name)
         IN  IF found = <<>> THEN <<>> ELSE locals[Head(found)][name]

LocalAttr ==
    /\ attrPhase = "done"
    /\ nQueries < MaxQueries
    /\ \E c \in Classes, name \in AttrNames :
         queryResult' = Result(local_attr(c, name))
    /\ nQueries' = nQueries + 1
    /\ UNCHANGED <<locals, instance_attrs, inferredOf, nResolved, lastRun,
                   lastRerun, attrPhase, resolved>>
    /\ UNCHANGED notAttr

(* lines 655-682 for a name that is no special attribute: a copy of the     *)
(* class's list, then what the direct ancestors give                        *)
(* variant: what the bases give comes before the class's own list         *)
OwnThenInherited_BasesFirst(own, inherited) == inherited \o own

(* lines 662 and 674-679: values = list(values); values += ...              *)
OwnThenInherited(own, inherited) == own \o inherited

RECURSIVE getattr(_, _)
getattr(c, name) ==
    LET direct == ancestors(c, FALSE)
        inherited[j \in 0..Len(direct)] ==
            IF j = 0 THEN <<>> ELSE inherited[j - 1] \o getattr(direct[j], name)
    IN  OwnThenInherited(locals[c][name], inherited[Len(direct)])

Getattr ==
    /\ attrPhase = "done"
    /\ nQueries < MaxQueries
    /\ \E c \in Classes, name \in AttrNames :
         queryResult' = Result(getattr(c, name))
    /\ nQueries' = nQueries + 1
    /\ UNCHANGED <<locals, instance_attrs, inferredOf, nResolved, lastRun,
                   lastRerun, attrPhase, resolved>>
    /\ UNCHANGED notAttr

NoDuplicates(values) ==
    \A i, j \in 1..Len(values) : i # j => values[i] # values[j]

(* C3: a second run of delayed_assattr on a node leaves every locals and    *)
(* instance_attrs list as it was, and after any sequence of runs no node    *)
(* occurs more than once in any of these lists.                             *)
C3_ResolutionIdempotent ==
    /\ [][(nResolved' # nResolved /\ lastRerun')
            => UNCHANGED <<locals, instance_attrs>>]_vars
    /\ [](\A c \in Classes, name \in AttrNames :
            /\ NoDuplicates(locals[c][name])
            /\ NoDuplicates(instance_attrs[c][name]))

(* how a list that was old looks after node has been recorded in it        *)
RecordedPerRule(old, new, node) ==
    new = IF /\ AssAttrNodes[node].frame = "__init__"
             /\ old # <<>>
             /\ AssAttrNodes[old[1]].frame # "__init__"
          THEN <<node>> \o old
          ELSE old \o <<node>>

(* C14: a node that deferred resolution records goes to the front of the    *)
(* list if its function is __init__ and the first entry of the list is not  *)
(* from an __init__; in every other case it goes to the end.                *)
C14_InsertionRule ==
    [][\A c \in Classes, name \in AttrNames :
          /\ locals'[c][name] # locals[c][name]
                => RecordedPerRule(locals[c][name], locals'[c][name], lastRun')
          /\ instance_attrs'[c][name] # instance_attrs[c][name]
                => RecordedPerRule(instance_attrs[c][name],
                                   instance_attrs'[c][name], lastRun')]_vars

C14_Witness ==
    /\ lastRun = 2
    /\ \E c \in Classes : instance_attrs[c]["a"] = <<2, 1>>

C3_Witness ==
    /\ lastRerun
    /\ \E c \in Classes :
         /\ inferredOf[lastRun] = <<InstanceOf(c), InstanceOf(c)>>
         /\ instance_attrs[c][AssAttrNodes[lastRun].attrname] = <<lastRun>>

(* the objects node.expr.infer() gave for the node before it failed or      *)
(* ended                                                                    *)
Candidates(node) ==
    IF inferredOf[node] = NotInferred
    THEN {}
    ELSE {inferredOf[node][j] : j \in
            {i \in 1..Len(inferredOf[node]) :
                \A h \in 1..i : inferredOf[node][h] # InferenceError}}

RecordedIn(attrs, c, node) ==
    InValues(node, attrs[c][AssAttrNodes[node].attrname])

(* C28: for each class or instance candidate inferred for the receiver of a *)
(* queued node, deferred resolution records the node in instance_attrs of   *)
(* that class under the attribute name, and it never writes into a locals   *)
(* map.                                                                     *)
C28_OnlyInstanceAttrsWritten ==
    /\ \A node \in 1..Len(AssAttrNodes), c \in Classes :
          (InstanceOf(c) \in Candidates(node) \/ ClassObj(c) \in Candidates(node))
              => RecordedIn(instance_attrs, c, node)
    /\ locals = NoAttrs

(* C28 as the code has it: a node is recorded in instance_attrs of a class  *)
(* exactly for an instance of that class among the candidates, and in the   *)
(* locals of a class exactly when the class itself is among them.           *)
C28_InstanceAttrsForInstancesLocalsForClasses ==
    \A node \in 1..Len(AssAttrNodes), c \in Classes :
        /\ RecordedIn(instance_attrs, c, node)
              <=> InstanceOf(c) \in Candidates(node)
        /\ RecordedIn(locals, c, node) <=> ClassObj(c) \in Candidates(node)

C28_Witness ==
    \E node \in 1..Len(AssAttrNodes) :
        /\ inferredOf[node] = <<NoNamespace, InstanceOf("Y"), ClassObj("Y")>>
        /\ RecordedIn(locals, "Y", node)
        /\ RecordedIn(instance_attrs, "Y", node)

InInit(node) == AssAttrNodes[node].frame = "__init__"

InitFirst(values) ==
    (\E j \in 1..Len(values) : InInit(values[j])) => InInit(values[1])

(* C30: after any sequence of deferred resolutions starting from empty      *)
(* lists, a list that holds a node assigned in a function named __init__    *)
(* has such a node as its first entry.                                      *)
C30_InitNodeFirst ==
    \A c \in Classes, name \in AttrNames :
        InitFirst(locals[c][name]) /\ InitFirst(instance_attrs[c][name])

C30_Witness ==
    /\ lastRun = 4
    /\ \E c \in Classes : locals[c]["a"] = <<4, 1>>

(* C7: once resolution has completed, the queries leave every locals and    *)
(* instance_attrs list unchanged, whatever their sequence and repetition.   *)
C7_QueriesLeaveAttrsUnchanged ==
    attrPhase = "done" => <<locals, instance_attrs>> = resolved

----------------------------------------------------------------------------
(* Attribute lookup on scopes: Class.getattr / igetattr /                   *)
(* has_dynamic_getattr and Module.getattr                                   *)

(* the nodes a visit may bind in a scope with set_local; root is the name   *)
(* of the module node.root() gives                                          *)
ScopeNodes ==
    [n \in 11..15 |->
        CASE n = 11 -> [name |-> "__getattr__", k |-> "Function", root |-> "mod"]
          [] n = 12 -> [name |-> "__getattribute__", k |-> "Function",
                        root |-> "mod"]
          [] n = 13 -> [name |-> "__getattribute__", k |-> "Function",
                        root |-> "__builtin__"]
          [] n = 14 -> [name |-> "a", k |-> "AssName", root |-> "mod"]
          [] n = 15 -> [name |-> "a", k |-> "DelName", root |-> "mod"]]

NoLocals == [name \in AllNames |-> <<>>]

(* class X(Y), class Y(Z) / class X(Z, Y) / class X(Z, Y), class Y(Z),      *)
(* with Z a class of __builtin__                                            *)
LookupHierarchies ==
    { InheritChain,
      [X |-> <<"Z", "Y">>, Y |-> <<>>, Z |-> <<>>],
      [X |-> <<"Z", "Y">>, Y |-> <<"Z">>, Z |-> <<>>] }

(* a run records one lookup: lookups change nothing a later one reads      *)
NoLookup == [op |-> "none", scope |-> "none", name |-> "none"]

LookupIdle ==
    /\ modLocals = NoLocals
    /\ nDefs = 0
    /\ lookup = NoLookup
    /\ lkResult = "unset"
    /\ lkValues = <<>>

(* set_local(name, node) on a class: the node joins the list of its name    *)
ClassSetLocal ==
    /\ lookup = NoLookup
    /\ nDefs < MaxDefs
    /\ \E c \in Classes, n \in DOMAIN ScopeNodes :
         locals' = [locals EXCEPT ![c][ScopeNodes[n].name] = Append(@, n)]
    /\ nDefs' = nDefs + 1
    /\ UNCHANGED <<modLocals, lookup, lkResult, lkValues>>
    /\ UNCHANGED <<instance_attrs, inferredOf, nResolved, lastRun, lastRerun,
                   attrPhase, resolved, nQueries, queryResult>>
    /\ UNCHANGED notAttrLookup

(* variant: no name counts as starting with two underscores                 *)
StartsWithDunder_Never(name) == FALSE

(* line 706: name.startswith('__')                                          *)
StartsWithDunder(name) == name \in DunderNames

(* line 717: the class Values of the module optparse                        *)
IsOptparseValues(c) == c = "Values"

(* lines 712-731                                                             *)
has_dynamic_getattr(c) ==
    IF IsOptparseValues(c)
    THEN TRUE
    ELSE IF getattr(c, "__getattr__") # <<>>
         THEN TRUE
         ELSE LET found == getattr(c, "__getattribute__")
              IN  /\ found # <<>>
                  /\ ScopeNodes[found[1]].root # "__builtin__"

(* lines 684-710: what pulling the generator gives first; the inference of  *)
(* the statements getattr found is left abstract                            *)
igetattr(c, name) ==
    IF getattr(c, name) # <<>>
    THEN "inferred"
    ELSE IF ~StartsWithDunder(name) /\ has_dynamic_getattr(c)
         THEN "YES"
         ELSE "InferenceError"

Igetattr ==
    /\ lookup = NoLookup
    /\ \E c \in Classes, name \in AllNames :
         /\ lookup' = [op |-> "igetattr", scope |-> c, name |-> name]
         /\ lkResult' = igetattr(c, name)
    /\ UNCHANGED <<modLocals, nDefs, lkValues>>
    /\ UNCHANGED notLookup

(* the class itself, then its ancestors in the order of ancestors()         *)
LookupOrder(c) == <<c>> \o ancestors(c, TRUE)

Defines(c, name) == locals[c][name] # <<>>

(* lookup of the name on the class has failed in an igetattr call           *)
IgetattrFailed ==
    /\ lookup.op = "igetattr"
    /\ \A j \in 1..Len(LookupOrder(lookup.scope)) :
          ~Defines(LookupOrder(lookup.scope)[j], lookup.name)

(* some class in the lookup order defines __getattr__                       *)
HasGetattrHook(c) ==
    \E j \in 1..Len(LookupOrder(c)) : Defines(LookupOrder(c)[j], "__getattr__")

(* some class in the lookup order defines a __getattribute__ that is not    *)
(* the builtin one                                                          *)
HasCustomGetattribute(c) ==
    \E j \in 1..Len(LookupOrder(c)) :
       \E i \in 1..Len(locals[LookupOrder(c)[j]]["__getattribute__"]) :
          ScopeNodes[locals[LookupOrder(c)[j]]["__getattribute__"][i]].root
             # "__builtin__"

(* the first __getattribute__ found in the lookup order is not the builtin  *)
(* one                                                                      *)
FirstGetattributeIsCustom(c) ==
    \E j \in 1..Len(LookupOrder(c)) :
       /\ Defines(LookupOrder(c)[j], "__getattribute__")
       /\ \A i \in 1..(j - 1) : ~Defines(LookupOrder(c)[i], "__getattribute__")
       /\ ScopeNodes[locals[LookupOrder(c)[j]]["__getattribute__"][1]].root
             # "__builtin__"

ModuleSetLocal ==
    /\ lookup = NoLookup
    /\ nDefs < MaxDefs
    /\ \E n \in DOMAIN ScopeNodes :
         modLocals' = [modLocals EXCEPT ![ScopeNodes[n].name] = Append(@, n)]
    /\ nDefs' = nDefs + 1
    /\ UNCHANGED <<lookup, lkResult, lkValues>>
    /\ UNCHANGED notLookup

(* remove_nodes(func, cls), lines 53-59: the nodes that are no cls; an      *)
(* empty list stands for NotFoundError                                      *)
remove_nodes(nodes, cls) ==
    SelectSeq(nodes, LAMBDA n : IF n \in DOMAIN ScopeNodes
                                THEN ScopeNodes[n].k # cls
                                ELSE TRUE)

ModuleSpecialAttributes == {"__name__", "__doc__", "__file__", "__path__", "__dict__"}

(* ModuleNG.getattr, lines 143-164, on a module that is no package (line   *)
(* 156 is false)                                                            *)
module_getattr(name) ==
    remove_nodes(
        IF name \notin ModuleSpecialAttributes /\ modLocals[name] # <<>>
        THEN modLocals[name]
        ELSE <<>>,
        "DelName")

Found(values) == IF values = <<>> THEN "NotFoundError" ELSE "found"

ModuleGetattr ==
    /\ lookup = NoLookup
    /\ \E name \in AllNames :
         /\ lookup' = [op |-> "getattr", scope |-> "module", name |-> name]
         /\ lkValues' = module_getattr(name)
         /\ lkResult' = Found(module_getattr(name))
    /\ UNCHANGED <<modLocals, nDefs>>
    /\ UNCHANGED notLookup

(* ClassNG.getattr, lines 655-682                                           *)
ClassGetattr ==
    /\ lookup = NoLookup
    /\ \E c \in Classes, name \in AllNames :
         /\ lookup' = [op |-> "getattr", scope |-> c, name |-> name]
         /\ lkValues' = getattr(c, name)
         /\ lkResult' = Found(getattr(c, name))
    /\ UNCHANGED <<modLocals, nDefs>>
    /\ UNCHANGED notLookup

(* the nodes bound to the name in the scope of the last lookup and, for a   *)
(* class, in its ancestors                                                  *)
BoundInScope ==
    IF lookup.scope = "module"
    THEN modLocals[lookup.name]
    ELSE Gather(locals, LookupOrder(lookup.scope), lookup.name)

OnlyDeleted(nodes) ==
    /\ nodes # <<>>
    /\ \A j \in 1..Len(nodes) : ScopeNodes[nodes[j]].k = "DelName"

(* C12: after a name that was never assigned in a scope is deleted there,   *)
(* getattr for that name on that scope raises NotFoundError, on a module    *)
(* and on a class alike.                                                    *)
C12_DeletedNameNotFound ==
    (lookup.op = "getattr" /\ OnlyDeleted(BoundInScope))
      => lkResult = "NotFoundError"

----------------------------------------------------------------------------
(* Subscripts: visit_subscript, visit_index, visit_extslice                 *)

CSubscript(expr, flags, subs) ==
    [k |-> "Subscript", expr |-> expr, flags |-> flags, subs |-> subs]
CSliceobj(nodes) == [k |-> "Sliceobj", nodes |-> nodes]

(* the entries between the brackets: indexes and slice objects              *)
SubscriptEntries ==
    << CConst, CName("i"), CName("j"),
       CSliceobj(<<CConstNone, CConst>>),
       CSliceobj(<<CName("i"), CConstNone>>),
       CSliceobj(<<CConst, CName("j"), CConst>>) >>

RECURSIVE EntryLists(_)
EntryLists(n) ==
    IF n = 0
    THEN {<<>>}
    ELSE EntryLists(n - 1)
         \cup {Append(l, e) : l \in {x \in EntryLists(n - 1) : Len(x) = n - 1},
                              e \in 1..Len(SubscriptEntries)}

(* the assignment contexts a subscript is visited in                        *)
SubscriptContexts == {"None", "Ass", "Dis"}

(* visit_index, lines 536-542: the first entry only                         *)
visit_index(node, ctx) ==
    LET v == Visit(node.subs[1], ctx)
    IN  Ret([k |-> "Index", value |-> v.n], v.ctx, v.eff)

(* visit_extslice, lines 441-447                                            *)
visit_extslice(node, ctx) ==
    LET ds == VisitAll(node.subs, ctx)
    IN  Ret([k |-> "ExtSlice", dims |-> ds.ns], ds.ctx, ds.eff)

(* visit_subscript, lines 659-674                                           *)
visit_subscript(node, ctx) ==
    IF ctx = "None"
    THEN CheckDelNode(<<node>>)
    ELSE LET value == Visit(node.expr, ctx)
             slice ==
                 IF \E j \in 1..Len(node.subs) : node.subs[j].k = "Sliceobj"
                 THEN IF Len(node.subs) = 1
                      THEN Ret(visit_sliceobj(node.subs[1]).g, value.ctx, <<>>)
                      ELSE visit_extslice(node, value.ctx)
                 ELSE visit_index(node, value.ctx)
         IN  Ret([k |-> "Subscript", value |-> value.n, slice |-> slice.n],
                 slice.ctx, value.eff \o slice.eff)

SubscriptIdle ==
    /\ subNode = NoNode
    /\ subResult = NoNode

VisitSubscript ==
    /\ \E l \in EntryLists(MaxSubs) \ {<<>>}, ctx \in SubscriptContexts :
         LET node == CSubscript(CName("a"), "OP_APPLY",
                                [j \in 1..Len(l) |-> SubscriptEntries[l[j]]])
         IN  /\ subNode' = [node |-> node, ctx |-> ctx]
             /\ subResult' = Visit(node, ctx).n
    /\ UNCHANGED notSubscript

(* the Subscript node of the result: a visit under no assignment context    *)
(* returns it as the target of a Delete node                                *)
BuiltSubscript ==
    IF subResult.k = "Delete" THEN subResult.targets[1] ELSE subResult

(* what an entry is rebuilt to: a Slice for a slice object, else the node   *)
(* of the index expression                                                  *)
IsRebuiltEntry(dim, entry) ==
    IF entry.k = "Sliceobj"
    THEN /\ dim.k = "Slice"
         /\ (Len(entry.nodes) = 2 => dim.step = NoNode)
    ELSE dim = Visit(entry, "Dis").n

(* C13: one non-slice entry gives an Index, one slice entry gives a Slice   *)
(* (without step for a two-element slice), and more than one entry gives an *)
(* ExtSlice whose dims hold every entry in source order.                    *)
C13_SubscriptFormsUnify ==
    subNode # NoNode =>
      LET subs == subNode.node.subs
          slice == BuiltSubscript.slice
      IN  /\ BuiltSubscript.k = "Subscript"
          /\ (Len(subs) = 1 /\ subs[1].k # "Sliceobj")
               => (slice.k = "Index" /\ IsRebuiltEntry(slice.value, subs[1]))
          /\ (Len(subs) = 1 /\ subs[1].k = "Sliceobj")
               => IsRebuiltEntry(slice, subs[1])
          /\ Len(subs) > 1
               => /\ slice.k = "ExtSlice"
                  /\ Len(slice.dims) = Len(subs)
                  /\ \A j \in 1..Len(subs) : IsRebuiltEntry(slice.dims[j], subs[j])

----------------------------------------------------------------------------
(* Building a module: ASTNGBuilder.ast_build and RebuildVisitor.build       *)

(* the keys of the manager cache under which the module may be registered   *)
CacheKeys == {"file", "name"}

(* variant: ast_build registers nothing before the rebuild                  *)
FileKeys_None == {}

(* builder.py lines 143-146: the module is registered under its file        *)
FileKeys == {"file"}

(* rebuilder.py lines 57-58: the module is registered under its name; the   *)
(* builder always has a manager (builder.py lines 57-60)                    *)
NameKeys == {"name"}

(* MANAGER.astng_from_module_name for the module being built: the cached,   *)
(* partially built module when it is registered under its name or its file, *)
(* else a build of the module is started                                    *)
Request(registered) ==
    IF registered # {} THEN "partial" ELSE "build"

InQueue(n) == \E j \in 1..Len(queue) : queue[j] = n

BuildIdle ==
    /\ buildPhase = "idle"
    /\ cache = {}
    /\ queue = <<>>
    /\ resolvedOrder = <<>>
    /\ request = "none"
    /\ nestedBuilds = 0

(* ast_build up to the call of the rebuilder                                *)
AstBuild ==
    /\ buildPhase = "idle"
    /\ buildPhase' = "visiting"
    /\ cache' = cache \cup FileKeys
    /\ UNCHANGED <<queue, resolvedOrder, request, nestedBuilds>>
    /\ UNCHANGED notBuild

(* visit_assattr under an assignment context, _nodes_compiler.py line 237:  *)
(* the new node joins the queue                                             *)
QueueAssAttr ==
    /\ buildPhase = "visiting"
    /\ Len(queue) < MaxQueued
    /\ \E n \in 1..Len(AssAttrNodes) :
         /\ ~InQueue(n)
         /\ queue' = Append(queue, n)
    /\ UNCHANGED <<buildPhase, cache, resolvedOrder, request, nestedBuilds>>
    /\ UNCHANGED notBuild

(* a request for the module being built, made by the wildcard import of a   *)
(* module visited during the rebuild (rebuilder.py line 147) or by an       *)
(* inference during the resolution                                          *)
ReentrantRequest ==
    /\ buildPhase \in {"visiting", "resolving"}
    /\ request' = Request(cache)
    /\ nestedBuilds' = IF Request(cache) = "build" /\ nestedBuilds < MaxNested
                       THEN nestedBuilds + 1
                       ELSE nestedBuilds
    /\ UNCHANGED <<buildPhase, cache, queue, resolvedOrder>>
    /\ UNCHANGED notBuild

(* build, lines 54-58: visit_module has returned, the module is registered  *)
RegisterModule ==
    /\ buildPhase = "visiting"
    /\ buildPhase' = "resolving"
    /\ cache' = cache \cup NameKeys
    /\ UNCHANGED <<queue, resolvedOrder, request, nestedBuilds>>
    /\ UNCHANGED notBuild

(* variant: the loop takes the queued nodes last first                      *)
NextDelayed_LastFirst(q, done) == q[Len(q) - done]

(* line 61: for delayed in self._delayed_assattr                            *)
NextDelayed(q, done) == q[done + 1]

(* line 61: the loop is over                                               *)
LoopDone(q, done) == done = Len(q)

(* the exception that leaves the for loop of delayed_assattr: no handler   *)
(* inside the loop takes an InferenceError of node.expr.infer()             *)
Escapes(infer) ==
    IF \E j \in 1..Len(infer) : infer[j].k = "InferenceError"
    THEN "InferenceError"
    ELSE "none"

(* variant: delayed_assattr has no handler                                  *)
Swallowed_Nothing(exc) == FALSE

(* rebuilder.py lines 235-236: except InferenceError: pass                  *)
Swallowed(exc) == exc = "InferenceError"

(* lines 61-62: delayed_assattr on the next queued node                     *)
ResolveDelayed ==
    /\ buildPhase = "resolving"
    /\ ~LoopDone(queue, Len(resolvedOrder))
    /\ LET node == NextDelayed(queue, Len(resolvedOrder))
       IN  /\ \E infer \in InferenceResults :
                LET st == delayed_assattr(<<locals, instance_attrs>>, node, infer)
                IN  /\ locals' = st[1]
                    /\ instance_attrs' = st[2]
                    /\ inferredOf' = [inferredOf EXCEPT ![node] = infer]
                    /\ buildPhase' =
                          IF Escapes(infer) # "none" /\ ~Swallowed(Escapes(infer))
                          THEN "raised"
                          ELSE buildPhase
           /\ lastRun' = node
           /\ resolvedOrder' = Append(resolvedOrder, node)
    /\ UNCHANGED <<nResolved, lastRerun, attrPhase, resolved, nQueries,
                   queryResult>>
    /\ UNCHANGED <<cache, queue, request, nestedBuilds>>
    /\ UNCHANGED notAttrBuild

(* line 63: return module                                                   *)
BuildReturn ==
    /\ buildPhase = "resolving"
    /\ LoopDone(queue, Len(resolvedOrder))
    /\ buildPhase' = "returned"
    /\ UNCHANGED <<cache, queue, resolvedOrder, request, nestedBuilds>>
    /\ UNCHANGED notBuild

(* the node is in no locals and no instance_attrs list                      *)
NotRecorded(n) ==
    \A c \in Classes, name \in AllNames :
       ~InValues(n, locals[c][name]) /\ ~InValues(n, instance_attrs[c][name])

(* the inference failed before it gave anything but the unknown sentinel,   *)
(* or gave nothing but the unknown sentinel                                 *)
NoCandidate(infer) ==
    \A j \in 1..Len(infer) :
       \/ infer[j].k \in {"YES", "InferenceError"}
       \/ \E i \in 1..(j - 1) : infer[i].k = "InferenceError"

----------------------------------------------------------------------------
(* The metaclass flags: RebuildVisitor._metaclass around visit_class        *)

(* build, line 52: self._metaclass = ['']                                   *)
ModuleMetaclass == <<"">>

(* visit_class, line 100: self._metaclass.append(self._metaclass[-1])       *)
EnterClassStack(s) == Append(s, s[Len(s)])

(* visit_class, line 103: self._metaclass.pop()                             *)
LeaveClassStack(s) == SubSeq(s, 1, Len(s) - 1)

(* variant: one flag for all nesting levels                                 *)
SetMetaclass_AllLevels(s) == [j \in 1..Len(s) |-> "type"]

(* _set_assign_infos, line 96: self._metaclass[-1] = 'type'                 *)
SetMetaclass(s) == [s EXCEPT ![Len(s)] = "type"]

NotLeft == [newstyle |-> "unset", depthBefore |-> 0, topBefore |-> "",
            depthAfter |-> 0, topAfter |-> "", ownFlag |-> FALSE, bases |-> FALSE]

MetaclassIdle ==
    /\ metaclass = ModuleMetaclass
    /\ entered = <<>>
    /\ nClassDefs = 0
    /\ lastLeft = NotLeft

(* visit_class up to the visit of the class body                            *)
EnterClass ==
    /\ Len(entered) < MaxNesting
    /\ nClassDefs < MaxClassDefs
    /\ metaclass' = EnterClassStack(metaclass)
    /\ entered' = Append(entered, [depth |-> Len(metaclass),
                                   top |-> metaclass[Len(metaclass)],
                                   assigned |-> FALSE])
    /\ nClassDefs' = nClassDefs + 1
    /\ UNCHANGED lastLeft
    /\ UNCHANGED notMetaclass

(* visit of `__metaclass__ = ..` in the module or in the body of the        *)
(* innermost open class                                                     *)
AssignMetaclass ==
    /\ metaclass' = SetMetaclass(metaclass)
    /\ entered' = IF entered = <<>>
                  THEN entered
                  ELSE [entered EXCEPT ![Len(entered)].assigned = TRUE]
    /\ UNCHANGED <<nClassDefs, lastLeft>>
    /\ UNCHANGED notMetaclass

(* visit_class from line 102 on: the body has been visited                  *)
LeaveClass ==
    /\ entered # <<>>
    /\ \E hasBases \in BOOLEAN :
         LET flag == metaclass[Len(metaclass)]
             left == LeaveClassStack(metaclass)
             e == entered[Len(entered)]
         IN  /\ metaclass' = left
             /\ lastLeft' = [newstyle |-> IF hasBases
                                          THEN "unset"
                                          ELSE IF flag = "type"
                                               THEN "True" ELSE "False",
                             depthBefore |-> e.depth,
                             topBefore |-> e.top,
                             depthAfter |-> Len(left),
                             topAfter |-> left[Len(left)],
                             ownFlag |-> (e.top = "type" \/ e.assigned),
                             bases |-> hasBases]
    /\ entered' = SubSeq(entered, 1, Len(entered) - 1)
    /\ UNCHANGED nClassDefs
    /\ UNCHANGED notMetaclass

(* C18: when visit_class returns, the metaclass stack has the depth and the *)
(* top value it had just before the class was entered, so that a class      *)
(* without bases is new-style by the flag of its own level only, whatever   *)
(* is assigned in the classes nested in it.                                 *)
C18_MetaclassStackRestored ==
    lastLeft # NotLeft =>
      /\ lastLeft.depthAfter = lastLeft.depthBefore
      /\ lastLeft.topAfter = lastLeft.topBefore
      /\ ~lastLeft.bases => (lastLeft.newstyle = "True" <=> lastLeft.ownFlag)

C18_Witness ==
    /\ lastLeft.depthBefore = 2
    /\ lastLeft.topBefore = ""
    /\ lastLeft.newstyle = "True"
    /\ entered # <<>>
    /\ metaclass[Len(metaclass)] = ""

----------------------------------------------------------------------------
(* Function.is_generator and Function.infer_call_result                     *)
(* (scoped_nodes.py lines 407-429)                                          *)

(* an expression and what its infer() gives, an InferenceError last if it   *)
(* fails                                                                    *)
FExpr(infers) == [k |-> "Name", infers |-> infers]
FYield == [k |-> "Yield"]
FReturn(v) == [k |-> "Return", value |-> v]
FDiscard(e) == [k |-> "Discard", expr |-> e]
FAssign(e) == [k |-> "Assign", expr |-> e]
FIf(b) == [k |-> "If", body |-> b]
FFunction(b) == [k |-> "Function", body |-> b]
FLambda(c) == [k |-> "Lambda", code |-> c]

(* the statements a function body is made of                                *)
FuncStmts ==
    << [k |-> "Pass"],
       FReturn(NoNode),                                      \* return
       FReturn(FExpr(<<ConstInstance>>)),
       FReturn(FExpr(<<InstanceOf("X"), InstanceOf("Y")>>)),
       FReturn(FExpr(<<InferenceError>>)),
       FReturn(FExpr(<<InstanceOf("X"), InferenceError>>)),
       FDiscard(FYield),                                     \* yield
       FIf(<<FReturn(FExpr(<<InstanceOf("Z")>>))>>),
       FIf(<<FDiscard(FYield)>>),
       FFunction(<<FDiscard(FYield)>>),
       FFunction(<<FReturn(FExpr(<<ClassObj("X")>>))>>),
       FAssign(FLambda(FYield)) >>                  \* g = lambda: (yield)

RECURSIVE FuncBodies(_)
FuncBodies(n) ==
    IF n = 0
    THEN {<<>>}
    ELSE LET shorter == FuncBodies(n - 1)
         IN  shorter \cup
             {Append(b, i) : b \in {c \in shorter : Len(c) = n - 1},
                             i \in 1..Len(FuncStmts)}

(* NodeNG.get_children on the nodes above                                   *)
get_children(node) ==
    CASE node.k = "Return" -> IF node.value = NoNode THEN <<>> ELSE <<node.value>>
      [] node.k \in {"Discard", "Assign"} -> <<node.expr>>
      [] node.k \in {"If", "Function"} -> node.body
      [] node.k = "Lambda" -> <<node.code>>
      [] OTHER -> <<>>

(* isinstance(node, klass) for the node classes above: Function and Lambda  *)
(* are two classes of the nodes module                                      *)
IsInstance(node, klass) == node.k = klass

IsSkipped(child, skip_klass) ==
    skip_klass # "None" /\ IsInstance(child, skip_klass)

(* NodeNG.nodes_of_class(klass, skip_klass): the node itself if it is of    *)
(* the class, then the nodes found in each child that is not of skip_klass  *)
RECURSIVE nodes_of_class(_, _, _)
nodes_of_class(node, klass, skip_klass) ==
    LET children == get_children(node)
        below[j \in 0..Len(children)] ==
            IF j = 0
            THEN <<>>
            ELSE below[j - 1]
                 \o (IF IsSkipped(children[j], skip_klass)
                     THEN <<>>
                     ELSE nodes_of_class(children[j], klass, skip_klass))
    IN  (IF IsInstance(node, klass) THEN <<node>> ELSE <<>>)
        \o below[Len(children)]

(* lines 407-413                                                            *)
is_generator(func) == nodes_of_class(func, "Yield", "Function") # <<>>

Generator == [k |-> "Generator"]
NoneValue == [k |-> "NoneValue"]

(* lines 423-429 for one return statement: the values of the returned       *)
(* expression up to an InferenceError, which is replaced by YES             *)
ReturnedValues(returnnode) ==
    IF returnnode.value = NoNode
    THEN <<NoneValue>>
    ELSE [j \in 1..Len(returnnode.value.infers) |->
             IF returnnode.value.infers[j] = InferenceError
             THEN YES
             ELSE returnnode.value.infers[j]]

(* lines 415-429                                                            *)
infer_call_result(func) ==
    IF is_generator(func)
    THEN <<Generator>>
    ELSE LET returns == nodes_of_class(func, "Return", "Function")
             yields[j \in 0..Len(returns)] ==
                 IF j = 0
                 THEN <<>>
                 ELSE yields[j - 1] \o ReturnedValues(returns[j])
         IN  yields[Len(returns)]

NotCalled == [k |-> "Function", body |-> <<>>]

CallIdle ==
    /\ callFunc = NotCalled
    /\ callResult = <<>>
    /\ called = FALSE

InferCallResult ==
    /\ ~called
    /\ \E b \in FuncBodies(MaxFuncBody) :
          LET func == FFunction([i \in 1..Len(b) |-> FuncStmts[b[i]]])
          IN  /\ callFunc' = func
              /\ callResult' = infer_call_result(func)
    /\ called' = TRUE
    /\ UNCHANGED notCall

(* the nodes of kind klass below node that are in no function or lambda     *)
(* nested in it                                                             *)
RECURSIVE OutsideNested(_, _)
OutsideNested(node, klass) ==
    LET children == get_children(node)
        below[j \in 0..Len(children)] ==
            IF j = 0
            THEN <<>>
            ELSE below[j - 1]
                 \o (IF children[j].k \in {"Function", "Lambda"}
                     THEN <<>>
                     ELSE IF children[j].k = klass
                          THEN <<children[j]>>
                          ELSE OutsideNested(children[j], klass))
    IN  below[Len(children)]

ExpectedOfReturn(r) ==
    IF r.value = NoNode
    THEN <<NoneValue>>
    ELSE LET vs == r.value.infers
         IN  IF vs[Len(vs)] = InferenceError
             THEN Append(SubSeq(vs, 1, Len(vs) - 1), YES)
             ELSE vs

RECURSIVE ExpectedOfReturns(_)
ExpectedOfReturns(rs) ==
    IF rs = <<>>
    THEN <<>>
    ELSE ExpectedOfReturn(Head(rs)) \o ExpectedOfReturns(Tail(rs))

(* C20: infer_call_result yields one generator marker and nothing else      *)
(* when the body has a yield outside nested functions; otherwise it yields, *)
(* for each return statement outside nested functions in order, a no-value  *)
(* result for a bare return or the inferred values of the returned          *)
(* expression, with YES in place of an inference failure.                   *)
C20_GeneratorOrReturnValues ==
    called =>
        callResult = IF OutsideNested(callFunc, "Yield") # <<>>
                     THEN <<Generator>>
                     ELSE ExpectedOfReturns(OutsideNested(callFunc, "Return"))

(* the same with a lambda taken as part of the function's own body          *)
C20_HoldsWithoutLambdas ==
    (called /\ nodes_of_class(callFunc, "Lambda", "None") = <<>>) =>
        callResult = IF OutsideNested(callFunc, "Yield") # <<>>
                     THEN <<Generator>>
                     ELSE ExpectedOfReturns(OutsideNested(callFunc, "Return"))

----------------------------------------------------------------------------
(* Parameter lists: visit_arguments, _nodify_args, _save_argument_name and  *)
(* _save_assignment                                                         *)

(* an entry of node.argnames: a name or a tuple of entries                  *)
PName(n) == [k |-> "str", name |-> n]
PTuple(es) == [k |-> "tuple", elts |-> es]

(* the positional part of node.argnames                                     *)
ArgPatterns ==
    { <<>>,
      <<PName("a")>>,
      <<PName("a"), PName("b")>>,
      <<PTuple(<<PName("a"), PName("b")>>)>>,
      <<PName("a"), PTuple(<<PName("b"), PTuple(<<PName("c"), PName("d")>>)>>)>>,
      <<PTuple(<<PTuple(<<PName("a")>>), PName("b")>>), PName("c")>> }

(* a Function or Lambda node of the compiler: argnames with the variadic    *)
(* names last, flags & 4 and flags & 8                                      *)
ArgumentNodes ==
    { [k |-> kind,
       argnames |-> p \o (IF va THEN <<PName("args")>> ELSE <<>>)
                      \o (IF kw THEN <<PName("kwargs")>> ELSE <<>>),
       varargs |-> va,
       kwargs |-> kw] :
         kind \in {"Function", "Lambda"}, p \in ArgPatterns,
         va \in BOOLEAN, kw \in BOOLEAN }

(* self._global_names when the parameters are visited.  visit_function      *)
(* pushes a dict for the function and its body is visited before its        *)
(* parameters (rebuilder.py 157-158, _nodes_compiler.py 473-475), so the    *)
(* top holds the names the function's own global statements declare (none   *)
(* of them a parameter of the function).  visit_lambda pushes nothing: the  *)
(* top is the dict of the function the lambda is in, with the global        *)
(* statements visited before the lambda, or there is no dict at all at      *)
(* module level.                                                            *)
GlobalNamesAt(kind) ==
    IF kind = "Function"
    THEN { <<{}>>, <<{"g"}>>, <<{"a"}, {}>>, <<{"a"}, {"g"}>> }
    ELSE { <<>>, <<{}>>, <<{"g"}>>, <<{"a"}>>, <<{"c", "g"}>> }

(* rebuilder.py line 198: self._global_names and                            *)
(* node.name in self._global_names[-1]                                      *)
IsGlobalName(global_names, name) ==
    global_names # <<>> /\ name \in global_names[Len(global_names)]

(* _save_assignment on an AssName of the parameter list: set_local on the   *)
(* module, or on node.parent, which hands it up to the function or lambda   *)
_save_assignment(global_names, name) ==
    IF IsGlobalName(global_names, name)
    THEN [scope |-> "module", name |-> name]
    ELSE [scope |-> "owner", name |-> name]

(* _nodify_args: nodes gives the nodes built, set_local the calls of        *)
(* set_local in order                                                       *)
RECURSIVE _nodify_args(_, _)
_nodify_args(global_names, values) ==
    LET res[j \in 0..Len(values)] ==
            IF j = 0
            THEN [nodes |-> <<>>, set_local |-> <<>>]
            ELSE LET arg == values[j]
                 IN  IF arg.k = "tuple"
                     THEN LET sub == _nodify_args(global_names, arg.elts)
                          IN  [nodes |-> Append(res[j - 1].nodes,
                                   [k |-> "Tuple", elts |-> sub.nodes]),
                               set_local |-> res[j - 1].set_local
                                             \o sub.set_local]
                     ELSE [nodes |-> Append(res[j - 1].nodes,
                                   [k |-> "AssName", name |-> arg.name]),
                           set_local |-> Append(res[j - 1].set_local,
                                   _save_assignment(global_names, arg.name))]
    IN  res[Len(values)]

(* _save_argument_name: node.parent.set_local of the variadic names         *)
_save_argument_name(vararg, kwarg) ==
    (IF vararg # "None" THEN <<[scope |-> "owner", name |-> vararg]>> ELSE <<>>)
    \o (IF kwarg # "None" THEN <<[scope |-> "owner", name |-> kwarg]>> ELSE <<>>)

(* visit_arguments, lines 205-223, on a node whose argnames hold the        *)
(* variadic names its flags announce                                        *)
visit_arguments_of(global_names, node) ==
    LET kwarg == IF node.kwargs THEN Last(node.argnames).name ELSE "None"
        names1 == IF node.kwargs THEN Front(node.argnames) ELSE node.argnames
        vararg == IF node.varargs THEN Last(names1).name ELSE "None"
        names2 == IF node.varargs THEN Front(names1) ELSE names1
        nodified == _nodify_args(global_names, names2)
    IN  [k |-> "Arguments", vararg |-> vararg, kwarg |-> kwarg,
         args |-> nodified.nodes,
         set_local |-> nodified.set_local
                       \o _save_argument_name(vararg, kwarg)
                       \o _save_argument_name(vararg, kwarg)]

NoArguments == [k |-> "None"]

ArgIdle ==
    /\ argNode = NoArguments
    /\ argGlobals = <<>>
    /\ argResult = NoArguments

VisitArguments ==
    /\ argResult = NoArguments
    /\ \E node \in ArgumentNodes :
         \E global_names \in GlobalNamesAt(node.k) :
            /\ argNode' = node
            /\ argGlobals' = global_names
            /\ argResult' = visit_arguments_of(global_names, node)
    /\ UNCHANGED notArg

(* the names at the leaves of a list of argument entries or nodes           *)
RECURSIVE LeafNames(_)
LeafNames(entries) ==
    IF entries = <<>>
    THEN {}
    ELSE (IF "elts" \in DOMAIN Head(entries)
          THEN LeafNames(Head(entries).elts)
          ELSE {Head(entries).name})
         \cup LeafNames(Tail(entries))

BoundIn(scope, name) ==
    \E j \in 1..Len(argResult.set_local) :
        argResult.set_local[j] = [scope |-> scope, name |-> name]

(* C22: every leaf name of the parameter list is registered in the locals   *)
(* of the function or lambda owning it, so are the variadic positional and  *)
(* keyword parameters when present, and neither variadic name is among the  *)
(* positional argument nodes.                                               *)
C22_ParametersBoundInOwner ==
    argResult # NoArguments =>
        /\ \A name \in LeafNames(argNode.argnames) : BoundIn("owner", name)
        /\ argNode.varargs => argResult.vararg = "args"
        /\ argNode.kwargs => argResult.kwarg = "kwargs"
        /\ LeafNames(argResult.args) \cap {"args", "kwargs"} = {}

(* the same for parameters whose name is not declared global in the         *)
(* function around them                                                     *)
C22_HoldsWithoutGlobalNames ==
    (argResult # NoArguments
        /\ \A name \in LeafNames(argNode.argnames) :
              ~IsGlobalName(argGlobals, name)) =>
        /\ \A name \in LeafNames(argNode.argnames) : BoundIn("owner", name)
        /\ argNode.varargs => argResult.vararg = "args"
        /\ argNode.kwargs => argResult.kwarg = "kwargs"
        /\ LeafNames(argResult.args) \cap {"args", "kwargs"} = {}

----------------------------------------------------------------------------
(* Chains of a bitwise operator: visit_binop                                *)

(* compiler nodes: Bitand, Bitor and Bitxor hold all operands of a chain in *)
(* nodes, the other binary operators hold left and right                    *)
CBitop(cls, nodes) == [k |-> cls, nodes |-> nodes]
CBinary(cls, left, right) == [k |-> cls, left |-> left, right |-> right]

(* variant: the chain built on the fly drops the first operand              *)
AllButLast_DropFirst(nodes) == Tail(nodes)

(* line 317: node.nodes[:-1]                                                *)
AllButLast(nodes) == SubSeq(nodes, 1, Len(nodes) - 1)

(* lines 306-323: the right operand is visited first                        *)
visit_binop(node, ctx) ==
    LET op == BinOp_OP_CLASSES[node.k]
    IN  IF op \in {"&", "|", "^"}
        THEN LET right == Visit(node.nodes[Len(node.nodes)], ctx)
                 bitop == BinOp_BIT_CLASSES[op]
                 left == IF Len(node.nodes) > 2
                         THEN Visit(CBitop(bitop, AllButLast(node.nodes)),
                                    right.ctx)
                         ELSE Visit(node.nodes[1], right.ctx)
             IN  Ret([k |-> "BinOp", op |-> op, left |-> left.n,
                      right |-> right.n],
                     left.ctx, right.eff \o left.eff)
        ELSE LET left == Visit(node.left, ctx)
                 right == Visit(node.right, left.ctx)
             IN  Ret([k |-> "BinOp", op |-> op, left |-> left.n,
                      right |-> right.n],
                     right.ctx, left.eff \o right.eff)

(* the operands of a chain                                                  *)
Operands ==
    { CName("a"), CName("b"), CConst,
      CBinary("Add", CName("a"), CConst),
      CBitop("Bitor", <<CName("a"), CName("b")>>) }

RECURSIVE OperandLists(_)
OperandLists(n) ==
    IF n = 0
    THEN {<<>>}
    ELSE LET shorter == OperandLists(n - 1)
         IN  shorter \cup
             {Append(l, o) : l \in {m \in shorter : Len(m) = n - 1},
                             o \in Operands}

BinopIdle ==
    /\ binNode = NoNode
    /\ binResult = NoNode

VisitBinop ==
    /\ binNode = NoNode
    /\ \E cls \in {"Bitand", "Bitor", "Bitxor"},
          nodes \in {l \in OperandLists(MaxOperands) : Len(l) >= 2} :
         /\ binNode' = CBitop(cls, nodes)
         /\ binResult' = Visit(CBitop(cls, nodes), "None").n
    /\ UNCHANGED notBinop

(* the node reached from t by going to the left operand j times             *)
LeftOf(t, n) ==
    LET down[j \in 0..n] == IF j = 0 THEN t ELSE down[j - 1].left
    IN  down[n]

(* C23: a chain of n >= 2 operands of one bitwise operator is rebuilt into  *)
(* a left-leaning binary tree of exactly n - 1 BinOp nodes of that          *)
(* operator: the right operand of the BinOp j steps down the left side is   *)
(* the operand n - j, and the left operand of the lowest one is the first   *)
(* operand, so the leaves read left to right are the operands in order.     *)
C23_LeftLeaningChain ==
    binNode # NoNode =>
        LET n == Len(binNode.nodes)
            operand(i) == Visit(binNode.nodes[i], "None").n
        IN  /\ \A j \in 0..(n - 2) :
                  /\ LeftOf(binResult, j).k = "BinOp"
                  /\ LeftOf(binResult, j).op = BinOp_OP_CLASSES[binNode.k]
                  /\ LeftOf(binResult, j).right = operand(n - j)
            /\ LeftOf(binResult, n - 1) = operand(1)

C23_Witness ==
    /\ binNode = CBitop("Bitxor", <<CName("a"), CName("b"), CConst>>)
    /\ binResult.right = [k |-> "Const"]
    /\ binResult.left.left = [k |-> "Name", name |-> "a"]

----------------------------------------------------------------------------
(* if / elif / else: visit_if and _init_else_node                           *)

(* one (test, body) pair of node.tests with the lines of the test           *)
(* (fromlineno, tolineno) and the last line of the body                     *)
CTest(test, body, from, to, last) ==
    [test |-> test, body |-> body, fromlineno |-> from, tolineno |-> to,
     body_tolineno |-> last]

(* an If node of the compiler: branch i starts on line 10 * i, its test     *)
(* takes testlines further lines, its body ends 5 lines below; else_ is a   *)
(* list of statements or NoNode                                             *)
CIf(tests, bodystmt, testlines, else_) ==
    [k |-> "If",
     tests |-> [i \in 1..Len(tests) |->
                   CTest(tests[i], <<bodystmt>>, 10 * i, 10 * i + testlines,
                         10 * i + 5)],
     else_ |-> else_,
     fromlineno |-> 10,
     tolineno |-> 10 * (Len(tests) + 1) + 5]

RECURSIVE TestLists(_)
TestLists(n) ==
    IF n = 0
    THEN {<<>>}
    ELSE LET shorter == TestLists(n - 1)
         IN  shorter \cup
             {Append(l, t) : l \in {m \in shorter : Len(m) = n - 1},
                             t \in {CName("a"), CName("b")}}

IfNodes ==
    { CIf(tests, bodystmt, testlines, else_) :
        tests \in {l \in TestLists(MaxTests) : Len(l) >= 1},
        bodystmt \in {CPass, CDiscard(CConst, 1)},
        testlines \in {0, 1},
        else_ \in {NoNode, [k |-> "Stmt", nodes |-> <<CPass>>],
                   [k |-> "Stmt", nodes |-> <<CDiscard(CName("b"), 1)>>]} }

(* _init_else_node, lines 155-159                                           *)
_init_else_node(node, ctx) ==
    IF node.else_ = NoNode
    THEN [ns |-> <<>>, ctx |-> ctx, eff |-> <<>>]
    ELSE VisitAll(node.else_.nodes, ctx)

(* variant: every elif hangs below the outermost If                         *)
SubParent_Outermost(i) == 0

(* line 507: subparent, subnode = subnode, new.If(); the If nodes are       *)
(* numbered from 0, the outermost, in the order they are made               *)
SubParent(i) == i - 1

(* lines 509-511: the span of the If made for an elif                       *)
ElifSpan(node) ==
    [fromlineno |-> node.tests[2].fromlineno,
     tolineno |-> node.tests[2].body_tolineno,
     blockstart_tolineno |-> node.tests[2].tolineno]

(* visit_if, lines 498-517: the tests and bodies are visited in order, then *)
(* the else block; the If of branch i + 1 is the orelse of that of branch i *)
visit_if(node, ctx) ==
    LET k == Len(node.tests)
        visited[j \in 0..k] ==
            IF j = 0
            THEN [ctx |-> ctx, eff |-> <<>>, tests |-> <<>>, bodies |-> <<>>]
            ELSE LET t == Visit(node.tests[j].test, visited[j - 1].ctx)
                     b == VisitAll(node.tests[j].body, t.ctx)
                 IN  [ctx |-> b.ctx,
                      eff |-> visited[j - 1].eff \o t.eff \o b.eff,
                      tests |-> Append(visited[j - 1].tests, t.n),
                      bodies |-> Append(visited[j - 1].bodies, b.ns)]
        orelse == _init_else_node(node, visited[k].ctx)
        chain[j \in 0..(k - 1)] ==
            LET i == k - 1 - j
            IN  [k |-> "If", made |-> i,
                 parent |-> IF i = 0 THEN "parent" ELSE "If",
                 parent_made |-> SubParent(i),
                 test |-> visited[k].tests[i + 1],
                 body |-> visited[k].bodies[i + 1],
                 orelse |-> IF j = 0 THEN orelse.ns ELSE <<chain[j - 1]>>,
                 fromlineno |-> IF i = 0 THEN node.fromlineno
                                ELSE ElifSpan(node).fromlineno,
                 tolineno |-> IF i = 0 THEN node.tolineno
                              ELSE ElifSpan(node).tolineno,
                 blockstart_tolineno |-> IF i = 0 THEN "unset"
                                         ELSE ElifSpan(node).blockstart_tolineno]
    IN  Ret(chain[k - 1], orelse.ctx, visited[k].eff \o orelse.eff)

IfIdle ==
    /\ ifNode = NoNode
    /\ ifResult = NoNode

VisitIf ==
    /\ ifNode = NoNode
    /\ \E node \in IfNodes :
         /\ ifNode' = node
         /\ ifResult' = visit_if(node, "None").n
    /\ UNCHANGED notIf

(* the If reached from t by going into the orelse n times                   *)
OrelseOf(t, n) ==
    LET down[j \in 0..n] == IF j = 0 THEN t ELSE down[j - 1].orelse[1]
    IN  down[n]

(* C24: an if statement with k tests is rebuilt into exactly k nested If    *)
(* nodes: the If of each elif is the only element of the orelse of its      *)
(* predecessor and has it as parent, and the else block, or an empty list,  *)
(* is the orelse of the innermost If only.                                  *)
C24_ElifChain ==
    ifNode # NoNode =>
        LET k == Len(ifNode.tests)
        IN  /\ \A j \in 0..(k - 1) :
                  /\ OrelseOf(ifResult, j).k = "If"
                  /\ OrelseOf(ifResult, j).test
                        = Visit(ifNode.tests[j + 1].test, "None").n
                  /\ OrelseOf(ifResult, j).body
                        = VisitAll(ifNode.tests[j + 1].body, "None").ns
            /\ \A j \in 0..(k - 2) :
                  /\ Len(OrelseOf(ifResult, j).orelse) = 1
                  /\ OrelseOf(ifResult, j + 1).parent = "If"
                  /\ OrelseOf(ifResult, j + 1).parent_made
                        = OrelseOf(ifResult, j).made
            /\ OrelseOf(ifResult, k - 1).orelse
                  = IF ifNode.else_ = NoNode
                    THEN <<>>
                    ELSE VisitAll(ifNode.else_.nodes, "None").ns

C24_Witness ==
    /\ ifNode # NoNode
    /\ Len(ifNode.tests) = 3
    /\ ifNode.else_ # NoNode
    /\ ifResult.orelse[1].orelse[1].orelse = <<[k |-> "Pass"]>>
    /\ ifResult.orelse[1].orelse[1].parent_made = 1

(* C27: the If made for an elif, whatever its position in the chain, has    *)
(* the first line and block-start line of that elif's own test and the last *)
(* line of that elif's own body.                                            *)
C27_ElifOwnSpan ==
    ifNode # NoNode =>
        \A j \in 1..(Len(ifNode.tests) - 1) :
            /\ OrelseOf(ifResult, j).fromlineno = ifNode.tests[j + 1].fromlineno
            /\ OrelseOf(ifResult, j).tolineno = ifNode.tests[j + 1].body_tolineno
            /\ OrelseOf(ifResult, j).blockstart_tolineno
                  = ifNode.tests[j + 1].tolineno

(* the same for the first elif only                                         *)
C27_HoldsForFirstElif ==
    (ifNode # NoNode /\ Len(ifNode.tests) >= 2) =>
        /\ OrelseOf(ifResult, 1).fromlineno = ifNode.tests[2].fromlineno
        /\ OrelseOf(ifResult, 1).tolineno = ifNode.tests[2].body_tolineno
        /\ OrelseOf(ifResult, 1).blockstart_tolineno = ifNode.tests[2].tolineno

----------------------------------------------------------------------------
(* Assignments in a class body: _set_assign_infos, lines 75-92              *)

MethodNames == {"n", "m"}

(* the callables an assignment in the class body may call by name           *)
CalledNames == {"classmethod", "staticmethod", "property"}

(* the targets of such an assignment: a name, or an attribute access, which *)
(* has no name                                                              *)
AssignTargets ==
    {[k |-> "AssName", name |-> name] : name \in MethodNames}
    \cup {[k |-> "AssAttr", name |-> "None"]}

(* klass[name]: the first node bound to the name in the locals of the       *)
(* class, 0 for a KeyError; nodes holds the nodes bound in the class body   *)
(* in the order of their set_local                                          *)
GetItem(nodes, name) ==
    IF \E j \in 1..Len(nodes) : nodes[j].name = name
    THEN CHOOSE j \in 1..Len(nodes) :
            /\ nodes[j].name = name
            /\ \A h \in 1..(j - 1) : nodes[h].name # name
    ELSE 0

(* lines 77-92 for one target of an assignment whose value is a call of     *)
(* func_name; nodes already holds the AssName the visit of the target bound *)
_set_assign_infos(nodes, ass_node, func_name) ==
    IF ass_node.k # "AssName"
    THEN nodes                        \* AttributeError: continue
    ELSE LET meth == GetItem(nodes, ass_node.name)
         IN  IF meth = 0
             THEN nodes               \* KeyError: continue
             ELSE IF nodes[meth].k = "Function"
                  THEN [nodes EXCEPT
                          ![meth].type =
                              IF func_name \in {"classmethod", "staticmethod"}
                              THEN func_name
                              ELSE @,
                          ![meth].extra_decorators = Append(@, func_name)]
                  ELSE nodes

NoAssign == [k |-> "None"]

KlassIdle ==
    /\ klassNodes = <<>>
    /\ nKlassBody = 0
    /\ lastAssign = NoAssign

(* def name(...) in the class body: visit_function gives it the role of a   *)
(* method and binds it (rebuilder.py 161-173)                               *)
DefMethod ==
    /\ nKlassBody < MaxKlassBody
    /\ \E name \in MethodNames :
         klassNodes' = Append(klassNodes,
                              [k |-> "Function", name |-> name,
                               type |-> "method", extra_decorators |-> <<>>])
    /\ nKlassBody' = nKlassBody + 1
    /\ lastAssign' = NoAssign
    /\ UNCHANGED notKlass

(* name = 1 in the class body: the target is bound, the value is no call    *)
AssignConst ==
    /\ nKlassBody < MaxKlassBody
    /\ \E name \in MethodNames :
         klassNodes' = Append(klassNodes,
                              [k |-> "AssName", name |-> name,
                               type |-> "None", extra_decorators |-> <<>>])
    /\ nKlassBody' = nKlassBody + 1
    /\ lastAssign' = NoAssign
    /\ UNCHANGED notKlass

(* target = func_name(...) in the class body: visit_assign visits the       *)
(* target, which binds a name, then the value, then calls _set_assign_infos *)
AssignCall ==
    /\ nKlassBody < MaxKlassBody
    /\ \E ass_node \in AssignTargets, func_name \in CalledNames :
         LET bound == IF ass_node.k = "AssName"
                      THEN Append(klassNodes,
                                  [k |-> "AssName", name |-> ass_node.name,
                                   type |-> "None", extra_decorators |-> <<>>])
                      ELSE klassNodes
         IN  /\ klassNodes' = _set_assign_infos(bound, ass_node, func_name)
             /\ lastAssign' = [k |-> "Assign", target |-> ass_node,
                               func_name |-> func_name, before |-> klassNodes]
    /\ nKlassBody' = nKlassBody + 1
    /\ UNCHANGED notKlass

(* the function the name was bound to when the assignment was reached: its  *)
(* latest binding if that is a function, else 0                             *)
BoundFunction(nodes, name) ==
    LET bindings == {j \in 1..Len(nodes) : nodes[j].name = name}
    IN  IF bindings = {}
        THEN 0
        ELSE LET latest == CHOOSE j \in bindings : \A h \in bindings : h <= j
             IN  IF nodes[latest].k = "Function" THEN latest ELSE 0

IsRoleAssign ==
    /\ lastAssign # NoAssign
    /\ lastAssign.target.k = "AssName"
    /\ lastAssign.func_name \in {"classmethod", "staticmethod"}

RolesAsBefore ==
    \A j \in 1..Len(lastAssign.before) :
        klassNodes[j].type = lastAssign.before[j].type

(* C29: in a class body `n = classmethod(...)` or `n = staticmethod(...)`   *)
(* gives the function n was bound to that role and appends the call to its  *)
(* extra decorators; when n is not bound to a function no role changes.     *)
C29_RoleOfBoundFunction ==
    IsRoleAssign =>
        LET meth == BoundFunction(lastAssign.before, lastAssign.target.name)
        IN  IF meth # 0
            THEN /\ klassNodes[meth].type = lastAssign.func_name
                 /\ klassNodes[meth].extra_decorators
                       = Append(lastAssign.before[meth].extra_decorators,
                                lastAssign.func_name)
            ELSE RolesAsBefore

(* the same when the name has no more than one binding before the           *)
(* assignment                                                               *)
C29_HoldsForSingleBinding ==
    (IsRoleAssign
        /\ Cardinality({j \in 1..Len(lastAssign.before) :
              lastAssign.before[j].name = lastAssign.target.name}) <= 1) =>
        LET meth == BoundFunction(lastAssign.before, lastAssign.target.name)
        IN  IF meth # 0
            THEN /\ klassNodes[meth].type = lastAssign.func_name
                 /\ klassNodes[meth].extra_decorators
                       = Append(lastAssign.before[meth].extra_decorators,
                                lastAssign.func_name)
            ELSE RolesAsBefore

----------------------------------------------------------------------------
(* Specifications *)

InitVisit == VisitIdle /\ FunctionIdle /\ AbstractIdle /\ TreeIdle /\ AncIdle
    /\ AttrIdle /\ LookupIdle /\ SubscriptIdle /\ BuildIdle /\ MetaclassIdle /\ CallIdle /\ ArgIdle /\ BinopIdle /\ IfIdle /\ KlassIdle
NextVisit == VisitChild
SpecVisit == InitVisit /\ [][NextVisit]_vars

InitFunction == VisitIdle /\ FunctionIdle /\ AbstractIdle /\ TreeIdle /\ AncIdle
    /\ AttrIdle /\ LookupIdle /\ SubscriptIdle /\ BuildIdle /\ MetaclassIdle /\ CallIdle /\ ArgIdle /\ BinopIdle /\ IfIdle /\ KlassIdle
NextFunction == VisitFunction
SpecFunction == InitFunction /\ [][NextFunction]_vars

InitAbstract == VisitIdle /\ FunctionIdle /\ AbstractIdle /\ TreeIdle /\ AncIdle
    /\ AttrIdle /\ LookupIdle /\ SubscriptIdle /\ BuildIdle /\ MetaclassIdle /\ CallIdle /\ ArgIdle /\ BinopIdle /\ IfIdle /\ KlassIdle
NextAbstract == IsAbstractCall
SpecAbstract == InitAbstract /\ [][NextAbstract]_vars

InitRebuildTwice == VisitIdle /\ FunctionIdle /\ AbstractIdle /\ TreeInit /\ AncIdle
    /\ AttrIdle /\ LookupIdle /\ SubscriptIdle /\ BuildIdle /\ MetaclassIdle /\ CallIdle /\ ArgIdle /\ BinopIdle /\ IfIdle /\ KlassIdle
NextRebuildTwice == Rebuild
SpecRebuildTwice == InitRebuildTwice /\ [][NextRebuildTwice]_vars

(* the consumer of ancestors() pulls until the generator is exhausted      *)
InitAncestors == VisitIdle /\ FunctionIdle /\ AbstractIdle /\ TreeIdle /\ AncIdle
    /\ AttrIdle /\ LookupIdle /\ SubscriptIdle /\ BuildIdle /\ MetaclassIdle /\ CallIdle /\ ArgIdle /\ BinopIdle /\ IfIdle /\ KlassIdle
NextAncestors == AddBase \/ StartAncestors \/ AncSkip \/ AncYield \/ AncReturn
SpecAncestors ==
    InitAncestors /\ [][NextAncestors]_vars /\ WF_vars(PullAncestors)

(* the deferred assignments of a module are resolved, some of them again   *)
InitResolve ==
    /\ VisitIdle /\ FunctionIdle /\ AbstractIdle /\ TreeIdle /\ AttrIdle
    /\ LookupIdle /\ SubscriptIdle /\ BuildIdle /\ MetaclassIdle /\ CallIdle /\ ArgIdle /\ BinopIdle /\ IfIdle /\ KlassIdle
    /\ bases = InheritChain
    /\ ancPhase = "build" /\ ancStart = "X" /\ ancRecurs = TRUE
    /\ ancStack = <<>> /\ ctxPath = <<>> /\ yielded = <<>>
NextResolve == DelayedAssattrCall
SpecResolve == InitResolve /\ [][NextResolve]_vars

(* resolution, then queries on the finished graph                          *)
InitQueries == InitResolve
NextQueries ==
    DelayedAssattrCall \/ ResolutionDone \/ InstanceAttr \/ LocalAttr \/ Getattr
SpecQueries == InitQueries /\ [][NextQueries]_vars

(* names are bound in the class bodies, then attributes are looked up      *)
InitLookup ==
    /\ VisitIdle /\ FunctionIdle /\ AbstractIdle /\ TreeIdle /\ AttrIdle
    /\ LookupIdle /\ SubscriptIdle /\ BuildIdle /\ MetaclassIdle /\ CallIdle /\ ArgIdle /\ BinopIdle /\ IfIdle /\ KlassIdle
    /\ bases \in LookupHierarchies
    /\ ancPhase = "build" /\ ancStart = "X" /\ ancRecurs = TRUE
    /\ ancStack = <<>> /\ ctxPath = <<>> /\ yielded = <<>>
NextLookup ==
    ClassSetLocal \/ ModuleSetLocal \/ Igetattr \/ ModuleGetattr \/ ClassGetattr
SpecLookup == InitLookup /\ [][NextLookup]_vars

InitSubscript == VisitIdle /\ FunctionIdle /\ AbstractIdle /\ TreeIdle /\ AncIdle
    /\ AttrIdle /\ LookupIdle /\ SubscriptIdle /\ BuildIdle /\ MetaclassIdle /\ CallIdle /\ ArgIdle /\ BinopIdle /\ IfIdle /\ KlassIdle
NextSubscript == VisitSubscript
SpecSubscript == InitSubscript /\ [][NextSubscript]_vars

(* one build of a module; it runs to its end                               *)
InitBuild == VisitIdle /\ FunctionIdle /\ AbstractIdle /\ TreeIdle /\ AncIdle
    /\ AttrIdle /\ LookupIdle /\ SubscriptIdle /\ BuildIdle /\ MetaclassIdle /\ CallIdle /\ ArgIdle /\ BinopIdle /\ IfIdle /\ KlassIdle
NextBuild ==
    \/ AstBuild \/ QueueAssAttr \/ ReentrantRequest \/ RegisterModule
    \/ ResolveDelayed \/ BuildReturn
SpecBuild == InitBuild /\ [][NextBuild]_vars /\ WF_vars(NextBuild)

InitMetaclass == VisitIdle /\ FunctionIdle /\ AbstractIdle /\ TreeIdle /\ AncIdle
    /\ AttrIdle /\ LookupIdle /\ SubscriptIdle /\ BuildIdle /\ MetaclassIdle /\ CallIdle /\ ArgIdle /\ BinopIdle /\ IfIdle /\ KlassIdle
NextMetaclass == EnterClass \/ AssignMetaclass \/ LeaveClass
SpecMetaclass == InitMetaclass /\ [][NextMetaclass]_vars

InitCall == VisitIdle /\ FunctionIdle /\ AbstractIdle /\ TreeIdle /\ AncIdle
    /\ AttrIdle /\ LookupIdle /\ SubscriptIdle /\ BuildIdle /\ MetaclassIdle
    /\ CallIdle /\ ArgIdle /\ BinopIdle /\ IfIdle /\ KlassIdle
NextCall == InferCallResult
SpecCall == InitCall /\ [][NextCall]_vars

InitArguments == VisitIdle /\ FunctionIdle /\ AbstractIdle /\ TreeIdle /\ AncIdle
    /\ AttrIdle /\ LookupIdle /\ SubscriptIdle /\ BuildIdle /\ MetaclassIdle
    /\ CallIdle /\ ArgIdle /\ BinopIdle /\ IfIdle /\ KlassIdle
NextArguments == VisitArguments
SpecArguments == InitArguments /\ [][NextArguments]_vars

InitBinop == VisitIdle /\ FunctionIdle /\ AbstractIdle /\ TreeIdle /\ AncIdle
    /\ AttrIdle /\ LookupIdle /\ SubscriptIdle /\ BuildIdle /\ MetaclassIdle
    /\ CallIdle /\ ArgIdle /\ BinopIdle /\ IfIdle /\ KlassIdle
NextBinop == VisitBinop
SpecBinop == InitBinop /\ [][NextBinop]_vars

InitIf == VisitIdle /\ FunctionIdle /\ AbstractIdle /\ TreeIdle /\ AncIdle
    /\ AttrIdle /\ LookupIdle /\ SubscriptIdle /\ BuildIdle /\ MetaclassIdle
    /\ CallIdle /\ ArgIdle /\ BinopIdle /\ IfIdle /\ KlassIdle
NextIf == VisitIf
SpecIf == InitIf /\ [][NextIf]_vars

InitKlass == VisitIdle /\ FunctionIdle /\ AbstractIdle /\ TreeIdle /\ AncIdle
    /\ AttrIdle /\ LookupIdle /\ SubscriptIdle /\ BuildIdle /\ MetaclassIdle
    /\ CallIdle /\ ArgIdle /\ BinopIdle /\ IfIdle /\ KlassIdle
NextKlass == DefMethod \/ AssignConst \/ AssignCall
SpecKlass == InitKlass /\ [][NextKlass]_vars

====
